---- MODULE Spec2Model ----
(***************************************************************************)
(* State-machine model of the Chatter services: the chat gateway (ingest   *)
(* consumer, safety pipeline, websocket fan-out), the persona worker       *)
(* (firehose consumer, decision engine, publisher) and the stream          *)
(* perceiver (frames/transcripts consumer).  Each service is one process   *)
(* with process-local state; `svc` says which process a behaviour is of.   *)
(***************************************************************************)
EXTENDS Integers, Sequences, FiniteSets, TLC

VARIABLES
    svc,                \* which service process this behaviour describes
    \* ---- chat gateway: RedisBus --------------------------------------
    ingest,             \* entries of stream:chat.ingest offered to the gateway
    g_pc,               \* position of RedisBus.run / _consume_loop / _handle_message
    g_client,           \* self.client is set
    g_group_ok,         \* consumer group known to exist for the current handle
    g_backoff,          \* local `backoff` of run()
    g_losses,           \* connection losses seen by run(): in all, and in a row
    g_sleep,            \* delay of the sleep in progress (0: none)
    g_cursor,           \* number of ingest entries already delivered to the group
    g_batch,            \* indexes of the entries of the current batch still to handle
    g_cur,              \* the sanitized message of the entry being handled
    g_acks,             \* per entry: number of xack attempts
    g_acked,            \* entries whose xack succeeded
    g_faults,           \* broker failures injected so far
    g_stop,             \* RedisBus._stop is set
    firehose,           \* messages appended to stream:chat.firehose
    messages_consumed,
    messages_broadcast,
    messages_dropped,
    g_last_enq,         \* record of the last enqueue_broadcast call of the handler
    \* ---- chat gateway: WebSocketManager ------------------------------
    max_queue_size,     \* maxsize of broadcast_queue
    rooms,              \* room_id -> set of websockets
    broadcast_queue,    \* FIFO of (room_id, message)
    w_pc,               \* broadcast worker: "get" or "gather"
    w_item,             \* item being dispatched
    w_targets,          \* `websockets` list of the item being dispatched
    w_results,          \* websocket -> "pending" | "ok" | "exc"
    c_pc,               \* per websocket: position of handle_client
    c_room,             \* per websocket: local `room` of handle_client
    c_first,            \* per websocket: what the first receive_text of the handshake met
    n_enq,              \* number of enqueue_broadcast calls so far
    n_accepted,         \* number of accepted items so far
    enq_rejected,       \* call numbers of the enqueue_broadcast calls that returned False
    dispatch_log,       \* per dispatched item: rooms map at dequeue, and the sends made
    \* ---- persona worker ----------------------------------------------
    now,                \* the wall clock, in ms
    ticks,              \* number of clock advances so far
    firehose_in,        \* entries of stream:chat.firehose offered to the worker
    room_cfg,           \* room config: room_id, enabled_personas and timing
    pw_pc,              \* position of _connect / _run / read_messages / _handle_message
    pw_redis,           \* self.redis is set
    pw_group_ok,        \* consumer group known to exist
    pw_backoff,         \* local `backoff` of _connect()
    pw_cursor,          \* number of firehose entries already delivered to the group
    pw_nodata,          \* entries of the batch without str data, still to ack
    pw_batch,           \* entries of the batch still to handle
    pw_personas,        \* personas the loop of _handle_message has still to visit
    pw_decision,        \* the last should_speak call and its result
    pw_acks,            \* per entry: number of ack attempts
    pw_acked,           \* entries whose xack succeeded
    pw_handled,         \* per entry: number of _handle_message calls
    pw_faults,          \* broker failures injected so far
    pw_stop,            \* PersonaWorkerService._stop is set
    dedupe_size,        \* State.dedupe_size
    dedupe_cache,       \* State.dedupe_cache, oldest key first
    seen_call,          \* the last seen_before call and its result
    bot_publish_times,  \* room_id -> RoomState.bot_publish_times
    event_times,        \* room_id -> RoomState.event_times
    recent_messages,    \* room_id -> ids of RoomState.recent_messages
    last_spoke_at_ms,   \* persona_id -> PersonaStats.last_spoke_at_ms
    persona_published,  \* persona_id -> PersonaStats.messages_published
    mention_events,     \* persona_id -> PersonaStats.mention_events
    ingest_out,         \* bot replies appended to stream:chat.ingest
    pw_consumed,        \* Stats.messages_consumed of the worker
    messages_deduped,
    messages_published,
    messages_suppressed_cooldown,
    messages_suppressed_budget,
    messages_suppressed_bot_origin,
    \* ---- stream perceiver ---------------------------------------------
    frames_in,          \* entries of stream:frames offered to the perceiver
    transcripts_in,     \* entries of stream:transcripts offered to the perceiver
    sp_pc,              \* position of run / _consume_loop / _handle_message
    sp_client,          \* self.client is set
    sp_group_ok,        \* consumer groups known to exist for the current handle
    sp_backoff,         \* local `backoff` of run()
    sp_losses,          \* connection losses seen by run(): in all, and in a row
    sp_cursor,          \* stream -> number of entries already delivered
    sp_batch,           \* <<stream, index>> of the entries still to handle
    sp_obs,             \* observation checked and ready for the xadd
    sp_acks,            \* per entry: number of xack attempts
    sp_acked,           \* entries whose xack succeeded
    sp_handled,         \* per entry: number of _handle_message calls
    sp_faults,          \* failures injected so far
    watermark_ms,       \* room_id -> self._watermark_ms
    transcripts,        \* room_id -> self._transcripts
    llm_log,            \* frames for which the provider was called
    observations,       \* entries appended to stream:observations
    processed_frames,
    processed_transcripts,
    emitted_observations,
    llm_calls,
    llm_failures,
    schema_failures,
    sha_mismatch,
    file_missing,
    redis_failures,
    \* ---- library functions called on their own -----------------------
    lib_pc,             \* "call": the call is still to be made, "done": it has returned
    lib_in,             \* the arguments of the call
    lib_out             \* what the call returned or raised, and what it did

gvars == <<g_stop, ingest, g_pc, g_client, g_group_ok, g_backoff, g_losses, g_sleep, g_cursor, g_batch,
           g_cur, g_acks, g_acked, g_faults, firehose, messages_consumed,
           messages_broadcast, messages_dropped, g_last_enq>>

wsvars == <<max_queue_size, rooms, broadcast_queue, w_pc, w_item, w_targets,
            w_results, c_pc, c_room, c_first, n_enq, n_accepted, enq_rejected,
            dispatch_log>>

pwvars == <<pw_stop, now, ticks, firehose_in, room_cfg, pw_pc, pw_redis, pw_group_ok, pw_backoff,
            pw_cursor, pw_nodata, pw_batch, pw_personas, pw_decision, pw_acks, pw_acked,
            pw_handled, pw_faults, dedupe_size, dedupe_cache, seen_call,
            bot_publish_times, event_times, recent_messages, last_spoke_at_ms, persona_published,
            mention_events, ingest_out, pw_consumed, messages_deduped,
            messages_published, messages_suppressed_cooldown,
            messages_suppressed_budget, messages_suppressed_bot_origin>>

spvars == <<frames_in, transcripts_in, sp_pc, sp_client, sp_group_ok, sp_backoff,
            sp_losses,
            sp_cursor, sp_batch, sp_obs, sp_acks, sp_acked, sp_handled,
            sp_faults, watermark_ms, transcripts, llm_log, observations,
            processed_frames, processed_transcripts, emitted_observations, llm_calls,
            llm_failures, schema_failures, sha_mismatch, file_missing, redis_failures>>

\* a step of the gateway process: the other processes' state is not its own
InGateway ==
    /\ svc \in {"gateway", "fanout", "overload", "loop", "gateway_outage", "handshake",
               "fifo", "gateway_shutdown", "gateway_redact"}
    /\ UNCHANGED <<svc, lib_pc, lib_in, lib_out, pwvars, spvars>>

\* a step of the persona worker process
InWorker ==
    /\ svc \in {"worker", "dedupe", "burst", "loop", "worker_shutdown"}
    /\ UNCHANGED <<svc, lib_pc, lib_in, lib_out, gvars, wsvars, spvars>>

\* a step of the stream perceiver process
InPerceiver ==
    /\ svc \in {"perceiver", "perceiver_outage", "perceiver_late"}
    /\ UNCHANGED <<svc, lib_pc, lib_in, lib_out, gvars, wsvars, pwvars>>

----------------------------------------------------------------------------
\* no library call is under way in the behaviours of the services
NoCall == lib_pc = "off" /\ lib_in = <<>> /\ lib_out = <<>>

(* Bounds of the model *)

MaxIngest == 2
QueueSize == 1
MaxFaults == 1
MaxOutages == 7
MaxCalls == 3
FifoQueueSize == 2
MaxSeenCalls == 4
MaxIds == 4

(* Program constants *)

BackoffCap == 30
ReadCount == 50
OverloadQueueSize == 8
OverloadBurst == 32

Rooms == {"room:demo", "room:b"}
Sockets == {"ws1", "ws2"}
NoMsg == [id |-> 0, room_id |-> "", origin |-> "", content |-> <<>>,
          action |-> "", reasons |-> <<>>]

----------------------------------------------------------------------------
(* Generic helpers *)

Min(a, b) == IF a < b THEN a ELSE b

Max(a, b) == IF a > b THEN a ELSE b

SeqToSet(s) == {s[i] : i \in 1..Len(s)}

RECURSIVE Concat(_)
Concat(ss) == IF ss = <<>> THEN <<>> ELSE Head(ss) \o Concat(Tail(ss))

----------------------------------------------------------------------------
(* chat_gateway/safety.py.  Content is a sequence of characters: "n" is a   *)
(* CR or LF, "s" a space, "p" and "q" are characters moderation patterns   *)
(* match, anything else is ordinary text.                                  *)

content_max_length == 3

\* the moderation config: (kind, regex, replacement) in file order
ModerationPatterns ==
    << [kind |-> "phone", regex |-> "p", replacement |-> <<"x">>],
       [kind |-> "strip", regex |-> "q", replacement |-> <<>>] >>

\* a moderation config whose replacement is longer than what it replaces, as
\* "[redacted]" put for a short match
RedactingPatterns ==
    << [kind |-> "phone", regex |-> "p", replacement |-> <<"x", "x">>],
       [kind |-> "strip", regex |-> "q", replacement |-> <<>>] >>

\* self.moderation: the config the gateway was started with
GatewayModeration ==
    IF svc = "gateway_redact" THEN RedactingPatterns ELSE ModerationPatterns

RECURSIVE Strip(_)
Strip(c) ==
    IF c = <<>> THEN c
    ELSE IF Head(c) = "s" THEN Strip(Tail(c))
    ELSE IF c[Len(c)] = "s" THEN Strip(SubSeq(c, 1, Len(c) - 1))
    ELSE c

sanitize_content_untruncated(content) ==
    Strip([i \in 1..Len(content) |-> IF content[i] = "n" THEN "s" ELSE content[i]])

sanitize_content(content) ==
    LET replaced == [i \in 1..Len(content) |->
                        IF content[i] = "n" THEN "s" ELSE content[i]]
        stripped == Strip(replaced)
    IN  IF Len(stripped) > content_max_length
        THEN SubSeq(stripped, 1, content_max_length)
        ELSE stripped

\* compiled.search(content)
PatternSearch(pattern, content) == pattern.regex \in SeqToSet(content)

\* compiled.sub(replacement, content)
PatternSub(pattern, content) ==
    Concat([i \in 1..Len(content) |->
              IF content[i] = pattern.regex THEN pattern.replacement
              ELSE <<content[i]>>])

RECURSIVE ModerationFold(_, _, _)
ModerationFold(patterns, content, reasons) ==
    IF patterns = <<>> THEN [content |-> content, reasons |-> reasons]
    ELSE IF PatternSearch(Head(patterns), content)
         THEN ModerationFold(Tail(patterns), PatternSub(Head(patterns), content),
                             Append(reasons, Head(patterns).kind))
         ELSE ModerationFold(Tail(patterns), content, reasons)

\* SafetyProcessor.apply_moderation under a moderation config
ModerationWith(patterns, content) ==
    LET r == ModerationFold(patterns, content, <<>>)
    IN  IF r.reasons # <<>>
        THEN [action |-> "redact", reasons |-> r.reasons, content |-> r.content]
        ELSE [action |-> "allow", reasons |-> <<>>, content |-> <<>>]

apply_moderation(content) == ModerationWith(GatewayModeration, content)

\* SafetyProcessor.process: NoMsg stands for None
process(message) ==
    LET sanitized == sanitize_content(message.content)
        moderation == apply_moderation(sanitized)
    IN  IF sanitized = <<>> THEN NoMsg
        ELSE [message EXCEPT
                !.content = IF moderation.action = "redact" /\ moderation.content # <<>>
                            THEN moderation.content ELSE sanitized,
                !.action = moderation.action,
                !.reasons = moderation.reasons]

----------------------------------------------------------------------------
(* chat_gateway/ws_server.py: WebSocketManager *)

NoItem == [seq |-> 0, room_id |-> "", message |-> NoMsg]

\* self.rooms.get(room_id, set())
RoomGet(rm, room_id) == IF room_id \in DOMAIN rm THEN rm[room_id] ELSE {}

\* connect: self.rooms[room_id].add(websocket)
connect(rm, ws, room_id) ==
    [r \in DOMAIN rm \cup {room_id} |->
        IF r = room_id THEN RoomGet(rm, room_id) \cup {ws} ELSE rm[r]]

\* a disconnect that removes the websocket and leaves the room key in place
disconnect_keep_key(rm, ws, room_id) ==
    [r \in DOMAIN rm |-> IF r = room_id THEN rm[r] \ {ws} ELSE rm[r]]

\* disconnect: remove the websocket, and pop the room key once the set is empty
disconnect(rm, ws, room_id) ==
    LET left == RoomGet(rm, room_id) \ {ws}
    IN  IF left = {} THEN [r \in DOMAIN rm \ {room_id} |-> rm[r]]
        ELSE [r \in DOMAIN rm |-> IF r = room_id THEN left ELSE rm[r]]

RECURSIVE DisconnectAll(_, _, _)
DisconnectAll(rm, wss, room_id) ==
    IF wss = {} THEN rm
    ELSE LET ws == CHOOSE w \in wss : TRUE
         IN  DisconnectAll(disconnect(rm, ws, room_id), wss \ {ws}, room_id)

\* a queue that lets one item more in
QueueFullOffByOne(q) == max_queue_size > 0 /\ Len(q) > max_queue_size

\* asyncio.Queue.full() of a queue built with maxsize=max_queue_size
QueueFull(q) == max_queue_size > 0 /\ Len(q) >= max_queue_size

\* enqueue_broadcast: the value it returns
EnqueueSent(q) == ~QueueFull(q)

\* a full queue that makes room by dropping its oldest item
EnqueueQueueEvict(q, item) == IF QueueFull(q) THEN Append(Tail(q), item) ELSE Append(q, item)

\* enqueue_broadcast: the queue it leaves (put_nowait, or QueueFull caught)
EnqueueQueue(q, item) == IF QueueFull(q) THEN q ELSE Append(q, item)

\* one call of enqueue_broadcast(room_id, message), with its bookkeeping
EnqueueBroadcast(room_id, message) ==
    LET item == [seq |-> n_accepted + 1, room_id |-> room_id, message |-> message]
    IN  /\ broadcast_queue' = EnqueueQueue(broadcast_queue, item)
        /\ n_enq' = n_enq + 1
        /\ n_accepted' = IF EnqueueSent(broadcast_queue) THEN n_accepted + 1 ELSE n_accepted
        /\ enq_rejected' = IF EnqueueSent(broadcast_queue) THEN enq_rejected
                           ELSE enq_rejected \cup {n_enq + 1}

\* a worker that sends every item to all connected websockets
SubscribersAnyRoom(rm, room_id) == UNION {rm[r] : r \in DOMAIN rm}

\* `websockets = list(self.rooms.get(room_id, []))`
Subscribers(rm, room_id) == RoomGet(rm, room_id)

\* a queue that hands out its newest item first
QueueGetNewest(q) == q[Len(q)]

\* asyncio.Queue.get(): the item that _get() pops, the oldest one
QueueGet(q) == Head(q)

\* a queue `q` once `item` has been taken out of it
QueueWithout(q, item) == SelectSeq(q, LAMBDA x : x # item)

\* _broadcast_worker: `await self.broadcast_queue.get()` up to the gather
WorkerGet ==
    /\ InGateway
    /\ UNCHANGED gvars
    /\ w_pc = "get"
    /\ broadcast_queue # <<>>
    /\ LET item == QueueGet(broadcast_queue)
           websockets == Subscribers(rooms, item.room_id)
       IN  /\ broadcast_queue' = QueueWithout(broadcast_queue, item)
           /\ dispatch_log' = Append(dispatch_log,
                  [seq |-> item.seq, room_id |-> item.room_id, rooms |-> rooms,
                   sent |-> {}, ok |-> {}, done |-> websockets = {}])
           /\ IF websockets = {}
              THEN UNCHANGED <<w_pc, w_item, w_targets, w_results>>
              ELSE /\ w_pc' = "gather"
                   /\ w_item' = item
                   /\ w_targets' = websockets
                   /\ w_results' = [ws \in Sockets |->
                                      IF ws \in websockets THEN "pending" ELSE "none"]
    /\ UNCHANGED <<max_queue_size, rooms, c_pc, c_room, c_first, n_enq, n_accepted, enq_rejected>>

\* which of the gathered sends may still finish (in the overload scenario the
\* subscriber's send never completes)
SendEnabled(ws) == w_results[ws] = "pending" /\ svc # "overload"

\* one ws.send_text(...) of the gather finishes: it returns or raises
WorkerSend(ws) ==
    /\ InGateway
    /\ UNCHANGED gvars
    /\ w_pc = "gather"
    /\ SendEnabled(ws)
    /\ \E res \in IF c_pc[ws] = "closed" THEN {"exc"} ELSE {"ok", "exc"} :
        /\ w_results' = [w_results EXCEPT ![ws] = res]
        /\ dispatch_log' = [dispatch_log EXCEPT ![Len(dispatch_log)] =
              [@ EXCEPT !.sent = @ \cup {ws},
                        !.ok = IF res = "ok" THEN @ \cup {ws} ELSE @]]
    /\ UNCHANGED <<max_queue_size, rooms, broadcast_queue, w_pc, w_item, w_targets,
                   c_pc, c_room, c_first, n_enq, n_accepted, enq_rejected>>

\* a worker that leaves the websockets whose send raised where they are
ReapedNone == {}

\* the websockets the loop after the gather disconnects
Reaped == {ws \in w_targets : w_results[ws] = "exc"}

\* the gather has returned: reap every websocket whose send raised
WorkerReap ==
    /\ InGateway
    /\ UNCHANGED gvars
    /\ w_pc = "gather"
    /\ \A ws \in w_targets : w_results[ws] \in {"ok", "exc"}
    /\ rooms' = DisconnectAll(rooms, Reaped, w_item.room_id)
    /\ w_pc' = "get"
    /\ w_item' = NoItem
    /\ w_targets' = {}
    /\ w_results' = [ws \in Sockets |-> "none"]
    /\ dispatch_log' = [dispatch_log EXCEPT ![Len(dispatch_log)] = [@ EXCEPT !.done = TRUE]]
    /\ UNCHANGED <<max_queue_size, broadcast_queue, c_pc, c_room, c_first, n_enq, n_accepted,
                   enq_rejected>>

\* what the first `await websocket.receive_text()` of handle_client meets: the
\* timeout, a disconnect, a frame that is not text, a text that is no JSON, JSON
\* that is no object, or a JSON object with its `type` and its `room_id`
FirstFrame(kind, type, room_is_str, room_id) ==
    [kind |-> kind, type |-> type, room_is_str |-> room_is_str, room_id |-> room_id]

NoFrameYet == FirstFrame("none", "", FALSE, "")

HandshakeFrames ==
    {FirstFrame(kind, "", FALSE, "") :
        kind \in {"timeout", "disconnect", "nontext", "nonjson", "nondict"}}
    \cup {FirstFrame("dict", type, TRUE, room_id) :
            type \in {"subscribe", "ping", ""}, room_id \in Rooms}
    \cup {FirstFrame("dict", type, FALSE, "") : type \in {"subscribe", "ping", ""}}

\* the first frames tried where the handshake is not what is looked at
FirstFrames ==
    IF svc = "handshake" THEN HandshakeFrames
    ELSE {FirstFrame("dict", "subscribe", TRUE, room_id) : room_id \in Rooms}
         \cup {FirstFrame("timeout", "", FALSE, ""), FirstFrame("nontext", "", FALSE, "")}

subscribe_room_any_type(frame, default_room) ==
    IF frame.kind = "dict" /\ frame.room_is_str THEN frame.room_id ELSE default_room

\* handle_client: the value of `room` when connect() is called
subscribe_room(frame, default_room) ==
    IF frame.kind = "dict" /\ frame.type = "subscribe" /\ frame.room_is_str
    THEN frame.room_id
    ELSE default_room

\* handle_client: accept, the first frame (or its timeout), then connect(); an
\* exception of receive_text that the inner `except` does not name goes to the
\* outer one
ClientSubscribe(ws) ==
    /\ InGateway
    /\ UNCHANGED gvars
    /\ c_pc[ws] = "accepted"
    /\ \E frame \in FirstFrames :
          /\ c_first' = [c_first EXCEPT ![ws] = frame]
          /\ IF frame.kind = "nontext"
             THEN /\ rooms' = disconnect(rooms, ws, c_room[ws])
                  /\ c_pc' = [c_pc EXCEPT ![ws] = "closed"]
                  /\ UNCHANGED c_room
             ELSE /\ c_room' = [c_room EXCEPT ![ws] = subscribe_room(frame, c_room[ws])]
                  /\ rooms' = connect(rooms, ws, c_room'[ws])
                  /\ c_pc' = [c_pc EXCEPT ![ws] = "ack"]
    /\ UNCHANGED <<max_queue_size, broadcast_queue, w_pc, w_item, w_targets, w_results,
                   n_enq, n_accepted, enq_rejected, dispatch_log>>

\* handle_client: send {type: subscribed, room_id: room}; a failure disconnects,
\* and the send to a client that has disconnected fails
ClientAck(ws) ==
    /\ InGateway
    /\ UNCHANGED gvars
    /\ c_pc[ws] = "ack"
    /\ \/ /\ c_first[ws].kind # "disconnect"
          /\ c_pc' = [c_pc EXCEPT ![ws] = "reading"]
          /\ UNCHANGED rooms
       \/ /\ c_pc' = [c_pc EXCEPT ![ws] = "closed"]
          /\ rooms' = disconnect(rooms, ws, c_room[ws])
    /\ c_first' = [c_first EXCEPT ![ws] = NoFrameYet]
    /\ UNCHANGED <<max_queue_size, broadcast_queue, w_pc, w_item, w_targets, w_results,
                   c_room, n_enq, n_accepted, enq_rejected, dispatch_log>>

\* handle_client: the read loop ends with WebSocketDisconnect
ClientDisconnect(ws) ==
    /\ InGateway
    /\ UNCHANGED gvars
    /\ c_pc[ws] = "reading"
    /\ c_pc' = [c_pc EXCEPT ![ws] = "closed"]
    /\ rooms' = disconnect(rooms, ws, c_room[ws])
    /\ UNCHANGED <<max_queue_size, broadcast_queue, w_pc, w_item, w_targets, w_results,
                   c_room, c_first, n_enq, n_accepted, enq_rejected, dispatch_log>>

InitWs(size, active) ==
    /\ max_queue_size = size
    /\ rooms = <<>>
    /\ broadcast_queue = <<>>
    /\ w_pc = "get"
    /\ w_item = NoItem
    /\ w_targets = {}
    /\ w_results = [ws \in Sockets |-> "none"]
    /\ c_pc = [ws \in Sockets |-> IF ws \in active THEN "accepted" ELSE "closed"]
    /\ c_room = [ws \in Sockets |-> "room:demo"]
    /\ c_first = [ws \in Sockets |-> NoFrameYet]
    /\ n_enq = 0
    /\ n_accepted = 0
    /\ enq_rejected = {}
    /\ dispatch_log = <<>>

----------------------------------------------------------------------------
(* chat_gateway/bus_redis_streams.py: RedisBus *)

HumanMsg(id, room_id, content) ==
    [id |-> id, room_id |-> room_id, origin |-> "human", content |-> content,
     action |-> "", reasons |-> <<>>]

\* what an ingest entry may carry: no data field, text that is no JSON, a payload
\* the schema rejects, or a schema-valid ChatMessage
GatewayEntries ==
    { [kind |-> "nodata", msg |-> NoMsg],
      [kind |-> "badjson", msg |-> NoMsg],
      [kind |-> "invalid", msg |-> HumanMsg(1, "room:demo", <<"a">>)],
      [kind |-> "msg", msg |-> HumanMsg(1, "room:demo", <<"a", "n", "p">>)],
      [kind |-> "msg", msg |-> HumanMsg(2, "room:b", <<"a">>)],
      [kind |-> "msg", msg |-> HumanMsg(2, "room:demo", <<"n", "s">>)],
      [kind |-> "msg", msg |-> HumanMsg(3, "room:demo", <<"q">>)] }

NoEnq == [call |-> 0, full |-> FALSE, sent |-> FALSE, before |-> <<>>, after |-> <<>>,
          broadcast |-> 0, dropped |-> 0]

\* the broker failures a behaviour may hold: more of them where the run loops
\* are followed through an outage
FaultCap ==
    IF svc \in {"gateway_outage", "perceiver_outage", "gateway_shutdown", "worker_shutdown"}
    THEN MaxOutages
    ELSE MaxFaults

\* a broker call may fail while the fault budget lasts
MayFail == g_faults < FaultCap

\* the connection losses a run loop went through: `total` since it started,
\* `streak` since the last read that returned entries
NoLosses == [total |-> 0, streak |-> 0]

OneMoreLoss(losses) == [total |-> losses.total + 1, streak |-> losses.streak + 1]

ReadDone(losses) == [losses EXCEPT !.streak = 0]

next_backoff_uncapped(backoff) == backoff * 2

\* run(): `backoff = min(backoff * 2, 30)`
next_backoff(backoff) == Min(backoff * 2, BackoffCap)

\* run(): `if not self.client: await self.connect()`
G_Connect ==
    /\ InGateway
    /\ g_pc = "run"
    /\ ~g_stop
    /\ ~g_client
    /\ \/ /\ g_client' = TRUE               \* group created, or BUSYGROUP
          /\ g_group_ok' = TRUE
          /\ g_pc' = "read"
          /\ UNCHANGED <<g_backoff, g_losses, g_sleep, g_faults>>
       \/ /\ MayFail                        \* connection error in xgroup_create
          /\ g_faults' = g_faults + 1
          /\ g_client' = TRUE
          /\ g_group_ok' = FALSE
          /\ g_sleep' = g_backoff
          /\ g_losses' = OneMoreLoss(g_losses)
          /\ g_pc' = "sleep_conn"
          /\ UNCHANGED g_backoff
       \/ /\ MayFail                        \* another ResponseError in xgroup_create
          /\ g_faults' = g_faults + 1
          /\ g_client' = TRUE
          /\ g_group_ok' = FALSE
          /\ g_sleep' = 1
          /\ g_pc' = "sleep_other"
          /\ UNCHANGED <<g_backoff, g_losses>>
    /\ UNCHANGED <<g_stop, ingest, g_cursor, g_batch, g_cur, g_acks, g_acked, firehose,
                   messages_consumed, messages_broadcast, messages_dropped, g_last_enq>>
    /\ UNCHANGED wsvars

\* run(): the handle is kept, so the loop goes straight to _consume_loop
G_Resume ==
    /\ InGateway
    /\ g_pc = "run"
    /\ ~g_stop
    /\ g_client
    /\ g_pc' = "read"
    /\ UNCHANGED <<g_stop, g_losses, ingest, g_client, g_group_ok, g_backoff, g_sleep, g_cursor, g_batch,
                   g_cur, g_acks, g_acked, g_faults, firehose, messages_consumed,
                   messages_broadcast, messages_dropped, g_last_enq>>
    /\ UNCHANGED wsvars

\* the sleep of an except branch of run() ends
G_Wake ==
    /\ InGateway
    /\ g_pc \in {"sleep_conn", "sleep_other"}
    /\ g_pc' = "run"
    /\ g_sleep' = 0
    /\ IF g_pc = "sleep_conn"
       THEN /\ g_backoff' = next_backoff(g_backoff)
            /\ g_client' = FALSE
            /\ g_group_ok' = FALSE
       ELSE UNCHANGED <<g_backoff, g_client, g_group_ok>>
    /\ UNCHANGED <<g_stop, g_losses, ingest, g_cursor, g_batch, g_cur, g_acks, g_acked, g_faults, firehose,
                   messages_consumed, messages_broadcast, messages_dropped, g_last_enq>>
    /\ UNCHANGED wsvars

\* _consume_loop: one xreadgroup(">", count=50)
G_Read ==
    /\ InGateway
    /\ g_pc = "read"
    /\ ~g_stop
    /\ \/ /\ g_group_ok
          /\ g_cursor < Len(ingest)
          /\ g_batch' = [i \in 1..Min(ReadCount, Len(ingest) - g_cursor) |-> g_cursor + i]
          /\ g_cursor' = g_cursor + Len(g_batch')
          /\ g_pc' = "handle"
          /\ g_losses' = ReadDone(g_losses)
          /\ UNCHANGED <<g_sleep, g_faults>>
       \/ /\ MayFail                        \* connection lost
          /\ g_faults' = g_faults + 1
          /\ g_sleep' = g_backoff
          /\ g_losses' = OneMoreLoss(g_losses)
          /\ g_pc' = "sleep_conn"
          /\ UNCHANGED <<g_batch, g_cursor>>
       \/ /\ ~g_group_ok                    \* NOGROUP: a ResponseError
          /\ g_sleep' = 1
          /\ g_pc' = "sleep_other"
          /\ UNCHANGED <<g_batch, g_cursor, g_faults, g_losses>>
    /\ UNCHANGED <<g_stop, ingest, g_client, g_group_ok, g_backoff, g_cur, g_acks, g_acked,
                   firehose, messages_consumed, messages_broadcast, messages_dropped,
                   g_last_enq>>
    /\ UNCHANGED wsvars

\* _handle_message up to its first suspension: count, parse, validate, process,
\* enqueue_broadcast
G_Process ==
    /\ InGateway
    /\ g_pc = "handle"
    /\ LET entry == ingest[Head(g_batch)]
           sanitized == IF entry.kind = "msg" THEN process(entry.msg) ELSE NoMsg
       IN  /\ messages_consumed' = messages_consumed + 1
           /\ IF sanitized = NoMsg
              THEN /\ messages_dropped' = messages_dropped + 1
                   /\ g_pc' = "ack"
                   /\ g_cur' = NoMsg
                   /\ UNCHANGED <<messages_broadcast, g_last_enq, broadcast_queue, n_enq,
                                  n_accepted, enq_rejected>>
              ELSE /\ EnqueueBroadcast(sanitized.room_id, sanitized)
                   /\ messages_broadcast' =
                        IF EnqueueSent(broadcast_queue) THEN messages_broadcast + 1
                        ELSE messages_broadcast
                   /\ messages_dropped' =
                        IF EnqueueSent(broadcast_queue) THEN messages_dropped
                        ELSE messages_dropped + 1
                   /\ g_last_enq' = [call |-> n_enq + 1,
                                     full |-> Len(broadcast_queue) = max_queue_size,
                                     sent |-> EnqueueSent(broadcast_queue),
                                     before |-> broadcast_queue,
                                     after |-> broadcast_queue',
                                     broadcast |-> messages_broadcast' - messages_broadcast,
                                     dropped |-> messages_dropped' - messages_dropped]
                   /\ g_cur' = sanitized
                   /\ g_pc' = "xadd"
    /\ UNCHANGED <<g_stop, g_losses, ingest, g_client, g_group_ok, g_backoff, g_sleep, g_cursor, g_batch,
                   g_acks, g_acked, g_faults, firehose>>
    /\ UNCHANGED <<max_queue_size, rooms, w_pc, w_item, w_targets, w_results, c_pc,
                   c_room, c_first, dispatch_log>>

\* what the `except Exception` branch of _handle_message does to messages_dropped
XaddFailedDropped(n) == n + 1

\* _handle_message: `await self.client.xadd(firehose, ...)`
G_Xadd ==
    /\ InGateway
    /\ g_pc = "xadd"
    /\ \/ /\ firehose' = Append(firehose, [entry |-> Head(g_batch), msg |-> g_cur])
          /\ UNCHANGED <<messages_dropped, g_faults>>
       \/ /\ MayFail
          /\ g_faults' = g_faults + 1
          /\ messages_dropped' = XaddFailedDropped(messages_dropped)
          /\ UNCHANGED firehose
    /\ g_pc' = "ack"
    /\ UNCHANGED <<g_stop, g_losses, ingest, g_client, g_group_ok, g_backoff, g_sleep, g_cursor, g_batch,
                   g_cur, g_acks, g_acked, messages_consumed, messages_broadcast,
                   g_last_enq>>
    /\ UNCHANGED wsvars

\* where _handle_message goes after the xack attempt, whatever its outcome
AfterAck(batch) == IF Tail(batch) = <<>> THEN "read" ELSE "handle"

\* _handle_message: the `finally` xack; a failure is logged only
G_Ack ==
    /\ InGateway
    /\ g_pc = "ack"
    /\ g_acks' = [g_acks EXCEPT ![Head(g_batch)] = @ + 1]
    /\ \/ /\ g_acked' = g_acked \cup {Head(g_batch)}
          /\ UNCHANGED g_faults
       \/ /\ MayFail
          /\ g_faults' = g_faults + 1
          /\ UNCHANGED g_acked
    /\ g_batch' = Tail(g_batch)
    /\ g_cur' = NoMsg
    /\ g_pc' = AfterAck(g_batch)
    /\ UNCHANGED <<g_stop, g_losses, ingest, g_client, g_group_ok, g_backoff, g_sleep, g_cursor, firehose,
                   messages_consumed, messages_broadcast, messages_dropped, g_last_enq>>
    /\ UNCHANGED wsvars

\* run() and _consume_loop(): `while not self._stop.is_set()` finds the event set
G_Exit ==
    /\ InGateway
    /\ g_pc \in {"run", "read"}
    /\ g_stop
    /\ g_pc' = "stopped"
    /\ UNCHANGED <<g_stop, g_losses, ingest, g_client, g_group_ok, g_backoff, g_sleep,
                   g_cursor, g_batch, g_cur, g_acks, g_acked, g_faults, firehose,
                   messages_consumed, messages_broadcast, messages_dropped, g_last_enq>>
    /\ UNCHANGED wsvars

\* shutdown_event of the gateway: ws_manager.shutdown() cancels the broadcast
\* worker, bus.stop() sets the event and closes the handle, which stays in
\* self.client; the task of run() is left alone
GatewayShutdown ==
    /\ InGateway
    /\ svc = "gateway_shutdown"
    /\ ~g_stop
    /\ g_stop' = TRUE
    /\ w_pc' = "cancelled"
    /\ UNCHANGED <<g_losses, ingest, g_pc, g_client, g_group_ok, g_backoff, g_sleep,
                   g_cursor, g_batch, g_cur, g_acks, g_acked, g_faults, firehose,
                   messages_consumed, messages_broadcast, messages_dropped, g_last_enq>>
    /\ UNCHANGED <<max_queue_size, rooms, broadcast_queue, w_item, w_targets, w_results,
                   c_pc, c_room, c_first, n_enq, n_accepted, enq_rejected, dispatch_log>>

InitBus(entries, faults) ==
    /\ ingest = entries
    /\ g_pc = "run"
    /\ g_client = FALSE
    /\ g_group_ok = FALSE
    /\ g_backoff = 1
    /\ g_losses = NoLosses
    /\ g_sleep = 0
    /\ g_cursor = 0
    /\ g_batch = <<>>
    /\ g_cur = NoMsg
    /\ g_acks = [i \in 1..Len(entries) |-> 0]
    /\ g_acked = {}
    /\ g_faults = faults
    /\ g_stop = FALSE
    /\ firehose = <<>>
    /\ messages_consumed = 0
    /\ messages_broadcast = 0
    /\ messages_dropped = 0
    /\ g_last_enq = NoEnq

----------------------------------------------------------------------------
(* persona_workers: state.py, policy.py, publisher.py, bus_redis_streams.py, *)
(* main.py                                                                   *)

\* Optional[int] fields that are not set
None == -1

\* settings and room timing (times in ms, probabilities in 1/1000)
soft_cooldown_ms == 1500
bot_budget_window_ms == 10000
max_react_age_ms == 20000
max_recent == 50
event_window_ms == 10000
mention_window_ms == 30000
pw_read_count == 20
p_base == 150
p_mention_bonus == 350
p_hype_bonus == 100
p_rate_penalty_per_msg == 10
p_floor == 20
p_one == 1000

\* configured values, scaled down
max_bot_msgs_per_10s == 2
dedupe_cache_size == 2

\* the clock at the start, the advances the model offers, and how many of them
StartMs == 20000
ClockSteps == {1500, 8500}
MaxTicks == 2

\* self.personas, in the order of the config
Personas == <<"p1", "p2">>

PersonaIds == SeqToSet(Personas)

\* a room config: room_id, enabled_personas and the timing section, with the
\* settings' defaults for the keys the section leaves out
RoomConfig(room_id, enabled_personas, soft, hard, budget) ==
    [room_id |-> room_id, enabled_personas |-> enabled_personas,
     soft_cooldown_ms |-> soft, hard_cooldown_ms |-> hard,
     max_bot_msgs_per_10s |-> budget]

\* room configs: room_id "" is a config without room_id
RoomConfigs ==
    { RoomConfig("room:demo", Personas, soft_cooldown_ms, None, max_bot_msgs_per_10s),
      RoomConfig("", Personas, soft_cooldown_ms, 3000, max_bot_msgs_per_10s) }

NoPayload == [id |-> 0, room_id |-> "", origin |-> "", ts_ms |-> 0, marker |-> FALSE,
              mentions |-> {}, hype |-> FALSE]

\* a firehose payload: `marker` says the content holds an E2E marker token,
\* `mentions` the personas whose display name it holds, `hype` a hype token
ChatPayload(id, room_id, origin, marker, mentions, hype) ==
    [id |-> id, room_id |-> room_id, origin |-> origin, ts_ms |-> StartMs,
     marker |-> marker, mentions |-> mentions, hype |-> hype]

\* the same with a `ts` that is max_react_age_s old when the worker starts
OldPayload(id, room_id, origin, marker, mentions, hype) ==
    [ChatPayload(id, room_id, origin, marker, mentions, hype) EXCEPT
       !.ts_ms = StartMs - max_react_age_ms]

Marker(id) == [kind |-> "msg", msg |-> ChatPayload(id, "room:demo", "human", TRUE, {}, FALSE)]

\* firehose contents the worker is run on
WorkerFeeds ==
    { <<Marker(1), Marker(2), Marker(3)>>,
      <<Marker(1), Marker(1)>>,
      <<[kind |-> "nodata", msg |-> NoPayload], [kind |-> "badjson", msg |-> NoPayload],
        Marker(1)>>,
      <<[kind |-> "nondict", msg |-> NoPayload], [kind |-> "noid", msg |-> NoPayload],
        [kind |-> "invalid", msg |-> ChatPayload(1, "room:demo", "human", TRUE, {}, FALSE)],
        Marker(1)>>,
      <<Marker(1),
        [kind |-> "msg", msg |-> ChatPayload(4, "room:demo", "bot", TRUE, {}, FALSE)],
        [kind |-> "msg", msg |-> ChatPayload(5, "room:b", "human", TRUE, {}, FALSE)]>>,
      <<[kind |-> "msg", msg |-> ChatPayload(2, "room:demo", "human", FALSE, {"p1"}, FALSE)],
        [kind |-> "msg", msg |-> OldPayload(6, "room:b", "human", FALSE, {}, TRUE)]>> }

\* RoomState._prune_budget / _prune_events / PersonaStats._prune_mentions
RECURSIVE PruneWindow(_, _, _)
PruneWindow(times, now_ms, window_ms) ==
    IF times # <<>> /\ now_ms - Head(times) > window_ms
    THEN PruneWindow(Tail(times), now_ms, window_ms)
    ELSE times

prune_budget(times, now_ms) == PruneWindow(times, now_ms, bot_budget_window_ms)

prune_events(times, now_ms) == PruneWindow(times, now_ms, event_window_ms)

prune_mentions(times, now_ms) == PruneWindow(times, now_ms, mention_window_ms)

within_budget_inclusive(times, now_ms) ==
    Len(prune_budget(times, now_ms)) <= room_cfg.max_bot_msgs_per_10s

\* RoomState.within_budget
within_budget(times, now_ms) ==
    Len(prune_budget(times, now_ms)) < room_cfg.max_bot_msgs_per_10s

record_bot_publish_forgets(times, now_ms) == prune_budget(times, now_ms)

\* RoomState.record_bot_publish
record_bot_publish(times, now_ms) == prune_budget(Append(times, now_ms), now_ms)

\* RoomState.record_event
record_event(times, ts_ms) == prune_events(Append(times, ts_ms), ts_ms)

\* RoomState.rate_10s
rate_10s(times, now_ms) == Len(prune_events(times, now_ms))

\* PersonaStats.record_mention
record_mention(times, now_ms) == prune_mentions(Append(times, now_ms), now_ms)

\* RoomState.add_message on a deque(maxlen=max_recent)
add_message(recent, id) ==
    IF Len(recent) >= max_recent THEN Append(Tail(recent), id) ELSE Append(recent, id)

\* State.seen_before: the value returned
seen_before(cache, message_id) == message_id \in SeqToSet(cache)

seen_before_keep_all(cache, message_id) ==
    IF seen_before(cache, message_id) THEN cache ELSE Append(cache, message_id)

\* State.seen_before: the cache it leaves
seen_before_cache(cache, message_id) ==
    IF seen_before(cache, message_id)
    THEN cache
    ELSE IF Len(Append(cache, message_id)) > dedupe_size
         THEN Tail(Append(cache, message_id))
         ELSE Append(cache, message_id)

NoSeenCall ==
    [n |-> 0, id |-> 0, ret |-> FALSE, before |-> <<>>, after |-> <<>>, uses |-> <<>>]

\* the record of a call of State.seen_before; `uses` lists the ids looked up so
\* far, the most recently looked up last
SeenCall(message_id) ==
    [n |-> seen_call.n + 1, id |-> message_id,
     ret |-> seen_before(dedupe_cache, message_id),
     before |-> dedupe_cache,
     after |-> seen_before_cache(dedupe_cache, message_id),
     uses |-> Append(SelectSeq(seen_call.uses, LAMBDA id : id # message_id), message_id)]

cooldown_ms_least ==
    IF room_cfg.hard_cooldown_ms # None
    THEN Min(room_cfg.soft_cooldown_ms, room_cfg.hard_cooldown_ms)
    ELSE room_cfg.soft_cooldown_ms

\* should_speak: the cooldown that applies
cooldown_ms ==
    IF room_cfg.hard_cooldown_ms # None
    THEN Max(room_cfg.soft_cooldown_ms, room_cfg.hard_cooldown_ms)
    ELSE room_cfg.soft_cooldown_ms

\* should_speak: the persona spoke less than the cooldown ago
InCooldown(persona_id, now_ms) ==
    /\ last_spoke_at_ms[persona_id] # None
    /\ now_ms - last_spoke_at_ms[persona_id] < cooldown_ms

\* PolicyEngine._deterministic_hash_score, in 1/1000: a fixed table standing for
\* the blake2b digest of "<id>:<persona_id>"
deterministic_hash_score(message_id, persona_id) ==
    ((message_id * 37 + (IF persona_id = "p1" THEN 11 ELSE 503)) * 131) % p_one

\* PolicyEngine._compute_threshold
compute_threshold(mentioned, hype, rate) ==
    LET p1 == IF mentioned THEN Min(p_one, p_base + p_mention_bonus) ELSE p_base
        p2 == IF hype THEN Min(p_one, p1 + p_hype_bonus) ELSE p1
    IN  IF rate > 0 THEN Max(p_floor, p2 - p_rate_penalty_per_msg * rate) ELSE p2

\* _compute_threshold with the bonuses added and the result capped once
ThresholdCappedOnce(policy, mentioned, hype, rate) ==
    LET p == policy.p_base + (IF mentioned THEN policy.p_mention_bonus ELSE 0)
                 + (IF hype THEN policy.p_hype_bonus ELSE 0)
                 - policy.p_rate_penalty_per_msg * rate
    IN  Max(p_floor, Min(p_one, p))

\* PolicyEngine._compute_threshold under the policy section of a room config
ThresholdWith(policy, mentioned, hype, rate) ==
    LET p1 == IF mentioned THEN Min(p_one, policy.p_base + policy.p_mention_bonus)
              ELSE policy.p_base
        p2 == IF hype THEN Min(p_one, p1 + policy.p_hype_bonus) ELSE p1
    IN  IF rate > 0 THEN Max(p_floor, p2 - policy.p_rate_penalty_per_msg * rate)
        ELSE p2

should_speak_cooldown_first(persona_id, msg, now_ms) ==
    IF msg.origin = "bot" THEN "bot_origin"
    ELSE IF InCooldown(persona_id, now_ms) THEN "cooldown"
    ELSE IF now_ms - msg.ts_ms > max_react_age_ms THEN "too_old"
    ELSE IF room_cfg.room_id # "" /\ msg.room_id # room_cfg.room_id THEN "wrong_room"
    ELSE IF msg.marker THEN "e2e_forced"
    ELSE IF ~within_budget(bot_publish_times[msg.room_id], now_ms) THEN "budget"
    ELSE "p_gate"

\* PolicyEngine.should_speak: the reason returned
should_speak(persona_id, msg, now_ms) ==
    IF msg.origin = "bot" THEN "bot_origin"
    ELSE IF now_ms - msg.ts_ms > max_react_age_ms THEN "too_old"
    ELSE IF room_cfg.room_id # "" /\ msg.room_id # room_cfg.room_id THEN "wrong_room"
    ELSE IF InCooldown(persona_id, now_ms) THEN "cooldown"
    ELSE IF ~within_budget(bot_publish_times[msg.room_id], now_ms) THEN "budget"
    ELSE IF msg.marker THEN "e2e_forced"
    ELSE IF deterministic_hash_score(msg.id, persona_id)
              < compute_threshold(persona_id \in msg.mentions, msg.hype,
                                  rate_10s(event_times[msg.room_id], now_ms))
         THEN "p_pass"
         ELSE "p_gate"

\* a loop that generates and publishes whatever should_speak returned
SpeaksWhatever(reason) == TRUE

\* `if not decision: ... continue`: the reasons should_speak returns with True
Speaks(reason) == reason \in {"e2e_forced", "p_pass"}

NoDecision == [entry |-> 0, persona_id |-> "", reason |-> "", now_ms |-> 0,
               last_spoke |-> None, marker |-> FALSE, origin |-> "", room_id |-> "",
               ts_ms |-> 0]

\* a broker call of the worker may fail while the fault budget lasts
MayFailPw == pw_faults < FaultCap

\* the clock moves on; it is read by should_speak, by the append and by the
\* bookkeeping after a publish
Tick(d) ==
    /\ InWorker
    /\ svc = "worker"
    /\ pw_pc \in {"decide", "publish", "record"}
    /\ ticks < MaxTicks
    /\ now' = now + d
    /\ ticks' = ticks + 1
    /\ UNCHANGED <<pw_stop, firehose_in, room_cfg, pw_pc, pw_redis, pw_group_ok, pw_backoff,
                     pw_cursor, pw_nodata, pw_batch, pw_personas, pw_decision, pw_acks,
                     pw_acked, pw_handled, pw_faults, dedupe_size, dedupe_cache,
                     seen_call, bot_publish_times, event_times, recent_messages,
                     last_spoke_at_ms, persona_published, mention_events, ingest_out, pw_consumed,
                     messages_deduped, messages_published,
                     messages_suppressed_cooldown, messages_suppressed_budget,
                     messages_suppressed_bot_origin>>

\* _connect: connect() and ensure_consumer_group()
P_Connect ==
    /\ InWorker
    /\ pw_pc = "connect"
    /\ ~pw_redis
    /\ \/ /\ pw_redis' = TRUE
          /\ pw_group_ok' = TRUE
          /\ pw_pc' = "read"
          /\ UNCHANGED pw_faults
       \/ /\ MayFailPw                      \* ping fails: self.redis stays unset
          /\ pw_faults' = pw_faults + 1
          /\ pw_pc' = "connect_sleep"
          /\ UNCHANGED <<pw_redis, pw_group_ok>>
       \/ /\ MayFailPw                      \* xgroup_create fails: self.redis is set
          /\ pw_faults' = pw_faults + 1
          /\ pw_redis' = TRUE
          /\ pw_group_ok' = FALSE
          /\ pw_pc' = "connect_sleep"
    /\ UNCHANGED <<pw_stop, now, ticks, firehose_in, room_cfg, pw_backoff, pw_cursor, pw_nodata,
                     pw_batch, pw_personas, pw_decision, pw_acks, pw_acked, pw_handled,
                     dedupe_size, dedupe_cache, seen_call, bot_publish_times,
                     event_times, recent_messages, last_spoke_at_ms, persona_published, mention_events,
                     ingest_out, pw_consumed, messages_deduped, messages_published,
                     messages_suppressed_cooldown, messages_suppressed_budget,
                     messages_suppressed_bot_origin>>

\* _connect: the sleep ends, backoff doubles, `while not self.redis` is tested
P_ConnectWake ==
    /\ InWorker
    /\ pw_pc = "connect_sleep"
    /\ pw_backoff' = next_backoff(pw_backoff)
    /\ pw_pc' = IF pw_redis THEN "read" ELSE "connect"
    /\ UNCHANGED <<pw_stop, now, ticks, firehose_in, room_cfg, pw_redis, pw_group_ok, pw_cursor,
                     pw_nodata, pw_batch, pw_personas, pw_decision, pw_acks, pw_acked,
                     pw_handled, pw_faults, dedupe_size, dedupe_cache, seen_call,
                     bot_publish_times, event_times, recent_messages, last_spoke_at_ms, persona_published,
                     mention_events, ingest_out, pw_consumed, messages_deduped,
                     messages_published, messages_suppressed_cooldown,
                     messages_suppressed_budget, messages_suppressed_bot_origin>>

\* the entries of a delivery, split as read_messages splits them
Delivered == [i \in 1..Min(pw_read_count, Len(firehose_in) - pw_cursor) |-> pw_cursor + i]

NoData(i) == firehose_in[i].kind = "nodata"

AfterRead(nodata, batch) ==
    IF nodata # <<>> THEN "read_ack" ELSE IF batch # <<>> THEN "handle" ELSE "read"

\* _run: one read_messages call up to the end of its xreadgroup
P_Read ==
    /\ InWorker
    /\ pw_pc = "read"
    /\ ~pw_stop
    /\ \/ /\ pw_group_ok
          /\ pw_cursor < Len(firehose_in)
          /\ pw_nodata' = SelectSeq(Delivered, NoData)
          /\ pw_batch' = SelectSeq(Delivered, LAMBDA i : ~NoData(i))
          /\ pw_cursor' = pw_cursor + Len(Delivered)
          /\ pw_pc' = AfterRead(pw_nodata', pw_batch')
          /\ UNCHANGED pw_faults
       \/ /\ MayFailPw                      \* connection error: _run sleeps 1 s
          /\ pw_faults' = pw_faults + 1
          /\ pw_pc' = "read_sleep"
          /\ UNCHANGED <<pw_nodata, pw_batch, pw_cursor>>
       \/ /\ ~pw_group_ok                   \* NOGROUP: read_messages sleeps 1 s
          /\ pw_pc' = "read_sleep"
          /\ UNCHANGED <<pw_nodata, pw_batch, pw_cursor, pw_faults>>
    /\ UNCHANGED <<pw_stop, now, ticks, firehose_in, room_cfg, pw_redis, pw_group_ok,
                     pw_backoff, pw_personas, pw_decision, pw_acks, pw_acked,
                     pw_handled, dedupe_size, dedupe_cache, seen_call,
                     bot_publish_times, event_times, recent_messages, last_spoke_at_ms, persona_published,
                     mention_events, ingest_out, pw_consumed, messages_deduped,
                     messages_published, messages_suppressed_cooldown,
                     messages_suppressed_budget, messages_suppressed_bot_origin>>

\* the sleep after a failed read ends
P_Wake ==
    /\ InWorker
    /\ pw_pc = "read_sleep"
    /\ pw_pc' = "read"
    /\ UNCHANGED <<pw_stop, now, ticks, firehose_in, room_cfg, pw_redis, pw_group_ok,
                     pw_backoff, pw_cursor, pw_nodata, pw_batch, pw_personas,
                     pw_decision, pw_acks, pw_acked, pw_handled, pw_faults,
                     dedupe_size, dedupe_cache, seen_call, bot_publish_times,
                     event_times, recent_messages, last_spoke_at_ms, persona_published, mention_events,
                     ingest_out, pw_consumed, messages_deduped, messages_published,
                     messages_suppressed_cooldown, messages_suppressed_budget,
                     messages_suppressed_bot_origin>>

\* read_messages: an entry without str data is acked and skipped
P_ReadAck ==
    /\ InWorker
    /\ pw_pc = "read_ack"
    /\ pw_acks' = [pw_acks EXCEPT ![Head(pw_nodata)] = @ + 1]
    /\ \/ /\ pw_acked' = pw_acked \cup {Head(pw_nodata)}
          /\ UNCHANGED pw_faults
       \/ /\ MayFailPw
          /\ pw_faults' = pw_faults + 1
          /\ UNCHANGED pw_acked
    /\ pw_nodata' = Tail(pw_nodata)
    /\ pw_pc' = AfterRead(Tail(pw_nodata), pw_batch)
    /\ UNCHANGED <<pw_stop, now, ticks, firehose_in, room_cfg, pw_redis, pw_group_ok,
                     pw_backoff, pw_cursor, pw_batch, pw_personas, pw_decision,
                     pw_handled, dedupe_size, dedupe_cache, seen_call,
                     bot_publish_times, event_times, recent_messages, last_spoke_at_ms, persona_published,
                     mention_events, ingest_out, pw_consumed, messages_deduped,
                     messages_published, messages_suppressed_cooldown,
                     messages_suppressed_budget, messages_suppressed_bot_origin>>

\* where the handler goes once the persona loop has visited `personas[1]`
AfterPersona(personas) == IF Tail(personas) = <<>> THEN "ack" ELSE "decide"

\* _handle_message from its start to the persona loop: parse, count, dedupe,
\* record_event, validate, add_recent_message (memory extraction is off)
P_Handle ==
    /\ InWorker
    /\ pw_pc = "handle"
    /\ LET i == Head(pw_batch)
           entry == firehose_in[i]
           msg == entry.msg
           dup == seen_before(dedupe_cache, msg.id)
       IN  /\ pw_handled' = [pw_handled EXCEPT ![i] = @ + 1]
           /\ pw_consumed' = IF entry.kind = "badjson" THEN pw_consumed ELSE pw_consumed + 1
           /\ IF entry.kind \in {"badjson", "nondict", "noid"}
              THEN /\ pw_pc' = "ack"
                   /\ UNCHANGED <<dedupe_cache, seen_call, messages_deduped, event_times,
                                  recent_messages, pw_personas>>
              ELSE /\ dedupe_cache' = seen_before_cache(dedupe_cache, msg.id)
                   /\ seen_call' = SeenCall(msg.id)
                   /\ messages_deduped' = IF dup THEN messages_deduped + 1
                                          ELSE messages_deduped
                   /\ event_times' =
                        IF dup THEN event_times
                        ELSE [event_times EXCEPT
                                ![msg.room_id] = record_event(@, msg.ts_ms)]
                   /\ recent_messages' =
                        IF dup \/ entry.kind = "invalid" THEN recent_messages
                        ELSE [recent_messages EXCEPT ![msg.room_id] = add_message(@, msg.id)]
                   /\ pw_personas' =
                        IF dup \/ entry.kind = "invalid" THEN <<>>
                        ELSE room_cfg.enabled_personas
                   /\ pw_pc' = IF pw_personas' = <<>> THEN "ack" ELSE "decide"
    /\ UNCHANGED <<pw_stop, now, ticks, firehose_in, room_cfg, pw_redis, pw_group_ok,
                     pw_backoff, pw_cursor, pw_nodata, pw_batch, pw_decision, pw_acks,
                     pw_acked, pw_faults, dedupe_size, bot_publish_times,
                     last_spoke_at_ms, persona_published, mention_events, ingest_out, messages_published,
                     messages_suppressed_cooldown, messages_suppressed_budget,
                     messages_suppressed_bot_origin>>

\* the persona loop: should_speak for the next persona, with what it does to the
\* sliding windows and the counters
P_Decide ==
    /\ InWorker
    /\ pw_pc = "decide"
    /\ LET i == Head(pw_batch)
           msg == firehose_in[i].msg
           persona_id == Head(pw_personas)
           reason == should_speak(persona_id, msg, now)
           budget_seen == reason \in {"budget", "e2e_forced", "p_pass", "p_gate"}
           rate_seen == reason \in {"e2e_forced", "p_pass", "p_gate"}
           mentioned == reason \in {"p_pass", "p_gate"} /\ persona_id \in msg.mentions
       IN  /\ pw_decision' = [entry |-> i, persona_id |-> persona_id, reason |-> reason,
                              now_ms |-> now, last_spoke |-> last_spoke_at_ms[persona_id],
                              marker |-> msg.marker, origin |-> msg.origin,
                              room_id |-> msg.room_id, ts_ms |-> msg.ts_ms]
           /\ bot_publish_times' =
                IF budget_seen
                THEN [bot_publish_times EXCEPT ![msg.room_id] = prune_budget(@, now)]
                ELSE bot_publish_times
           /\ event_times' =
                IF rate_seen
                THEN [event_times EXCEPT ![msg.room_id] = prune_events(@, now)]
                ELSE event_times
           /\ mention_events' =
                IF mentioned
                THEN [mention_events EXCEPT ![persona_id] = record_mention(@, now)]
                ELSE mention_events
           /\ messages_suppressed_cooldown' =
                IF reason = "cooldown" THEN messages_suppressed_cooldown + 1
                ELSE messages_suppressed_cooldown
           /\ messages_suppressed_budget' =
                IF reason = "budget" THEN messages_suppressed_budget + 1
                ELSE messages_suppressed_budget
           /\ messages_suppressed_bot_origin' =
                IF reason = "bot_origin" THEN messages_suppressed_bot_origin + 1
                ELSE messages_suppressed_bot_origin
           /\ IF Speaks(reason)
              THEN /\ pw_pc' = "publish"
                   /\ UNCHANGED pw_personas
              ELSE /\ pw_pc' = AfterPersona(pw_personas)
                   /\ pw_personas' = Tail(pw_personas)
    /\ UNCHANGED <<pw_stop, now, ticks, firehose_in, room_cfg, pw_redis, pw_group_ok,
                     pw_backoff, pw_cursor, pw_nodata, pw_batch, pw_acks, pw_acked,
                     pw_handled, pw_faults, dedupe_size, dedupe_cache, seen_call,
                     recent_messages, last_spoke_at_ms, persona_published, ingest_out, pw_consumed,
                     messages_deduped, messages_published>>

build_chat_message_as_human(persona_id, room_id, now_ms, entry) ==
    [persona_id |-> persona_id, room_id |-> room_id, origin |-> "human",
     at |-> now_ms, entry |-> entry]

\* build_chat_message: the fields of the reply the model keeps, with the time of
\* the append and the firehose entry it replies to
build_chat_message(persona_id, room_id, now_ms, entry) ==
    [persona_id |-> persona_id, room_id |-> room_id, origin |-> "bot",
     at |-> now_ms, entry |-> entry]

publish_chat_message_always(valid, appended) == TRUE

\* publish_chat_message: the value returned, from what validator.validate and
\* client.xadd did
publish_chat_message(valid, appended) == valid /\ appended

\* where _handle_message goes with the value publish_chat_message returned
AfterPublish(published, personas) ==
    IF published THEN "record" ELSE AfterPersona(personas)

\* generate_reply and publish_chat_message: the generated message fails the
\* schema and nothing is appended, or the reply is appended to ingest, or the
\* xadd raises
P_Publish ==
    /\ InWorker
    /\ pw_pc = "publish"
    /\ \E valid \in BOOLEAN, appended \in BOOLEAN :
          LET published == publish_chat_message(valid, appended)
          IN  /\ appended => valid                \* no xadd after a failed validation
              /\ ~appended => MayFailPw
              /\ pw_faults' = IF appended THEN pw_faults ELSE pw_faults + 1
              /\ ingest_out' =
                    IF appended
                    THEN Append(ingest_out,
                                build_chat_message(
                                    Head(pw_personas),
                                    firehose_in[Head(pw_batch)].msg.room_id,
                                    now, Head(pw_batch)))
                    ELSE ingest_out
              /\ pw_pc' = AfterPublish(published, pw_personas)
              /\ pw_personas' = IF published THEN pw_personas ELSE Tail(pw_personas)
    /\ UNCHANGED <<pw_stop, now, ticks, firehose_in, room_cfg, pw_redis, pw_group_ok,
                     pw_backoff, pw_cursor, pw_nodata, pw_batch, pw_decision, pw_acks,
                     pw_acked, pw_handled, dedupe_size, dedupe_cache, seen_call,
                     bot_publish_times, event_times, recent_messages, last_spoke_at_ms,
                     persona_published, mention_events, pw_consumed, messages_deduped,
                     messages_published, messages_suppressed_cooldown,
                     messages_suppressed_budget, messages_suppressed_bot_origin>>

\* `if published:` last_spoke_at_ms, persona_published, record_publish and the counters
P_Record ==
    /\ InWorker
    /\ pw_pc = "record"
    /\ LET room_id == firehose_in[Head(pw_batch)].msg.room_id
           persona_id == Head(pw_personas)
       IN  /\ last_spoke_at_ms' = [last_spoke_at_ms EXCEPT ![persona_id] = now]
           /\ persona_published' = [persona_published EXCEPT ![persona_id] = @ + 1]
           /\ bot_publish_times' =
                [bot_publish_times EXCEPT ![room_id] = record_bot_publish(@, now)]
    /\ messages_published' = messages_published + 1
    /\ pw_pc' = AfterPersona(pw_personas)
    /\ pw_personas' = Tail(pw_personas)
    /\ UNCHANGED <<pw_stop, now, ticks, firehose_in, room_cfg, pw_redis, pw_group_ok,
                     pw_backoff, pw_cursor, pw_nodata, pw_batch, pw_decision, pw_acks,
                     pw_acked, pw_handled, pw_faults, dedupe_size, dedupe_cache,
                     seen_call, event_times, recent_messages, mention_events,
                     ingest_out, pw_consumed, messages_deduped,
                     messages_suppressed_cooldown, messages_suppressed_budget,
                     messages_suppressed_bot_origin>>

AfterAckPw(batch) == IF Tail(batch) = <<>> THEN "read" ELSE "handle"

AckAttemptsFinallyToo(kind) == IF kind = "badjson" THEN 2 ELSE 1

\* _handle_message: the ack attempts made on the way out, one before the `return`
\* of the malformed-JSON branch and one in `finally` for everything else
AckAttempts(kind) == IF kind = "badjson" THEN 1 ELSE 1

\* the ack of _handle_message (after malformed JSON, or in `finally`); ack()
\* swallows a failure
P_Ack ==
    /\ InWorker
    /\ pw_pc = "ack"
    /\ pw_acks' = [pw_acks EXCEPT
                     ![Head(pw_batch)] = @ + AckAttempts(firehose_in[Head(pw_batch)].kind)]
    /\ \/ /\ pw_acked' = pw_acked \cup {Head(pw_batch)}
          /\ UNCHANGED pw_faults
       \/ /\ MayFailPw
          /\ pw_faults' = pw_faults + 1
          /\ UNCHANGED pw_acked
    /\ pw_batch' = Tail(pw_batch)
    /\ pw_personas' = <<>>
    /\ pw_pc' = AfterAckPw(pw_batch)
    /\ UNCHANGED <<pw_stop, now, ticks, firehose_in, room_cfg, pw_redis, pw_group_ok,
                     pw_backoff, pw_cursor, pw_nodata, pw_decision, pw_handled,
                     dedupe_size, dedupe_cache, seen_call, bot_publish_times,
                     event_times, recent_messages, last_spoke_at_ms, persona_published, mention_events,
                     ingest_out, pw_consumed, messages_deduped, messages_published,
                     messages_suppressed_cooldown, messages_suppressed_budget,
                     messages_suppressed_bot_origin>>

\* a caller of State.seen_before, taken alone
SeenBeforeCall(message_id) ==
    /\ InWorker
    /\ svc = "dedupe"
    /\ seen_call.n < MaxSeenCalls
    /\ dedupe_cache' = seen_before_cache(dedupe_cache, message_id)
    /\ seen_call' = SeenCall(message_id)
    /\ UNCHANGED <<pw_stop, now, ticks, firehose_in, room_cfg, pw_pc, pw_redis, pw_group_ok,
                     pw_backoff, pw_cursor, pw_nodata, pw_batch, pw_personas,
                     pw_decision, pw_acks, pw_acked, pw_handled, pw_faults,
                     dedupe_size, bot_publish_times, event_times, recent_messages,
                     last_spoke_at_ms, persona_published, mention_events, ingest_out, pw_consumed,
                     messages_deduped, messages_published,
                     messages_suppressed_cooldown, messages_suppressed_budget,
                     messages_suppressed_bot_origin>>

\* _run: `while not self._stop.is_set()` finds the event set
P_Exit ==
    /\ InWorker
    /\ pw_pc = "read"
    /\ pw_stop
    /\ pw_pc' = "stopped"
    /\ UNCHANGED <<pw_stop, now, ticks, firehose_in, room_cfg, pw_redis, pw_group_ok,
                   pw_backoff, pw_cursor, pw_nodata, pw_batch, pw_personas, pw_decision,
                   pw_acks, pw_acked, pw_handled, pw_faults, dedupe_size, dedupe_cache,
                   seen_call, bot_publish_times, event_times, recent_messages,
                   last_spoke_at_ms, persona_published, mention_events, ingest_out,
                   pw_consumed, messages_deduped, messages_published,
                   messages_suppressed_cooldown, messages_suppressed_budget,
                   messages_suppressed_bot_origin>>

\* shutdown(): sets the event and closes self.redis when there is one; nothing
\* is done to _connect or to the task of _run
WorkerShutdown ==
    /\ InWorker
    /\ svc = "worker_shutdown"
    /\ ~pw_stop
    /\ pw_stop' = TRUE
    /\ UNCHANGED <<now, ticks, firehose_in, room_cfg, pw_pc, pw_redis, pw_group_ok,
                   pw_backoff, pw_cursor, pw_nodata, pw_batch, pw_personas, pw_decision,
                   pw_acks, pw_acked, pw_handled, pw_faults, dedupe_size, dedupe_cache,
                   seen_call, bot_publish_times, event_times, recent_messages,
                   last_spoke_at_ms, persona_published, mention_events, ingest_out,
                   pw_consumed, messages_deduped, messages_published,
                   messages_suppressed_cooldown, messages_suppressed_budget,
                   messages_suppressed_bot_origin>>

InitPw(feed, cfg, size, pc, faults) ==
    /\ now = StartMs
    /\ ticks = 0
    /\ firehose_in = feed
    /\ room_cfg = cfg
    /\ pw_pc = pc
    /\ pw_stop = FALSE
    /\ pw_redis = FALSE
    /\ pw_group_ok = FALSE
    /\ pw_backoff = 1
    /\ pw_cursor = 0
    /\ pw_nodata = <<>>
    /\ pw_batch = <<>>
    /\ pw_personas = <<>>
    /\ pw_decision = NoDecision
    /\ pw_acks = [i \in 1..Len(feed) |-> 0]
    /\ pw_acked = {}
    /\ pw_handled = [i \in 1..Len(feed) |-> 0]
    /\ pw_faults = faults
    /\ dedupe_size = size
    /\ dedupe_cache = <<>>
    /\ seen_call = NoSeenCall
    /\ bot_publish_times = [r \in Rooms |-> <<>>]
    /\ event_times = [r \in Rooms |-> <<>>]
    /\ recent_messages = [r \in Rooms |-> <<>>]
    /\ last_spoke_at_ms = [p \in PersonaIds |-> None]
    /\ persona_published = [p \in PersonaIds |-> 0]
    /\ mention_events = [p \in PersonaIds |-> <<>>]
    /\ ingest_out = <<>>
    /\ pw_consumed = 0
    /\ messages_deduped = 0
    /\ messages_published = 0
    /\ messages_suppressed_cooldown = 0
    /\ messages_suppressed_budget = 0
    /\ messages_suppressed_bot_origin = 0

\* the burst of scenario S3: human messages with a forced marker in one room,
\* handled within less than the budget window
BurstLen == 10
BurstBudget == 5
BurstStep == 3000

BurstFeed ==
    [k \in 1..BurstLen |->
        [kind |-> "msg", msg |-> ChatPayload(k, "room:demo", "human", TRUE, {}, FALSE)]]

\* one persona without cooldown, one persona with the default cooldown, two
\* personas without cooldown; the budget is the settings' default
BurstConfigs ==
    { RoomConfig("room:demo", <<"p1">>, 0, None, BurstBudget),
      RoomConfig("room:demo", <<"p1">>, soft_cooldown_ms, None, BurstBudget),
      RoomConfig("room:demo", Personas, 0, None, BurstBudget) }

\* the clock moves on between two decisions of the burst, which stays shorter
\* than the window
BurstTick ==
    /\ InWorker
    /\ svc = "burst"
    /\ pw_pc = "decide"
    /\ now + BurstStep - StartMs < bot_budget_window_ms
    /\ now' = now + BurstStep
    /\ UNCHANGED <<pw_stop, ticks, firehose_in, room_cfg, pw_pc, pw_redis, pw_group_ok, pw_backoff,
                     pw_cursor, pw_nodata, pw_batch, pw_personas, pw_decision, pw_acks,
                     pw_acked, pw_handled, pw_faults, dedupe_size, dedupe_cache,
                     seen_call, bot_publish_times, event_times, recent_messages,
                     last_spoke_at_ms, persona_published, mention_events, ingest_out, pw_consumed,
                     messages_deduped, messages_published,
                     messages_suppressed_cooldown, messages_suppressed_budget,
                     messages_suppressed_bot_origin>>

\* the worker's state in a behaviour of another process
NoWorker == InitPw(<<>>, RoomConfig("", <<>>, soft_cooldown_ms, None, 0), 0, "off", 0)

----------------------------------------------------------------------------
(* stream_perceptor/main.py: StreamPerceptor *)

transcript_buffer_retention_ms == 120000
transcript_join_window_ms == 30000
sp_read_count == 50

FramesKey == "stream:frames"
TranscriptsKey == "stream:transcripts"

\* a SHA-256 in hex: the digest it denotes and the case of its letters
Hex(digest, case) == [digest |-> digest, case |-> case]

\* str.lower() on a hex string
Lower(hex) == [hex EXCEPT !.case = IF hex.digest = "" THEN @ ELSE "lower"]

\* _sha256_file: hexdigest() of the bytes on disk, in lower case
sha256_file(frame) == Hex(frame.file_digest, "lower")

NoFrame == [id |-> 0, room_id |-> "", ts_ms |-> 0, path_blank |-> FALSE,
            file |-> "missing", file_digest |-> "", sha256 |-> Hex("", "lower")]

\* a StreamFrame payload together with what is on disk at frame_path
Frame(id, ts_ms, file, file_digest, sha256) ==
    [kind |-> "frame",
     frame |-> [id |-> id, room_id |-> "room:demo", ts_ms |-> ts_ms, path_blank |-> FALSE,
                file |-> file, file_digest |-> file_digest, sha256 |-> sha256]]

Segment(id, ts_ms) ==
    [kind |-> "seg", seg |-> [id |-> id, room_id |-> "room:demo", ts_ms |-> ts_ms]]

NoSeg == [id |-> 0, room_id |-> "", ts_ms |-> 0]

\* stream contents the perceiver is run on
PerceiverFeeds ==
    { [frames |-> <<Frame(1, 10000, "present", "d1", Hex("d1", "lower")),
                    Frame(2, 10000, "present", "d2", Hex("d1", "lower")),
                    Frame(3, 10000, "missing", "", Hex("d1", "lower"))>>,
       transcripts |-> <<Segment(1, 0), Segment(2, 40000)>>],
      [frames |-> <<Frame(1, 10000, "present", "d1", Hex("d1", "lower")),
                    Frame(1, 10000, "present", "d1", Hex("d1", "lower"))>>,
       transcripts |-> <<>>],
      [frames |-> <<Frame(4, 130000, "present", "d1", Hex("d1", "upper")),
                    Frame(5, 130000, "present", "d2", Hex("d1", "upper"))>>,
       transcripts |-> <<Segment(2, 130000), Segment(1, 0), Segment(1, 130000)>>],
      [frames |-> <<[kind |-> "nodata", frame |-> NoFrame],
                    [kind |-> "badjson", frame |-> NoFrame],
                    [kind |-> "invalid", frame |-> NoFrame]>>,
       transcripts |-> <<[kind |-> "nodata", seg |-> NoSeg],
                         [kind |-> "invalid", seg |-> NoSeg],
                         Segment(1, 0)>>],
      [frames |-> <<[kind |-> "frame",
                     frame |-> [NoFrame EXCEPT !.id = 6, !.room_id = "room:demo",
                                               !.path_blank = TRUE]]>>,
       transcripts |-> <<>>] }

\* sort key of a buffered segment: (_ts_ms, id)
SegBefore(a, b) == a.ts_ms < b.ts_ms \/ (a.ts_ms = b.ts_ms /\ a.id < b.id)

\* list.sort(key=...), which is stable
RECURSIVE InsertSorted(_, _)
InsertSorted(sorted, seg) ==
    IF sorted = <<>> THEN <<seg>>
    ELSE IF SegBefore(seg, Head(sorted)) THEN <<seg>> \o sorted
    ELSE <<Head(sorted)>> \o InsertSorted(Tail(sorted), seg)

RECURSIVE SortSegs(_)
SortSegs(buf) ==
    IF buf = <<>> THEN <<>>
    ELSE InsertSorted(SortSegs(SubSeq(buf, 1, Len(buf) - 1)), buf[Len(buf)])

\* self._watermark_ms[room_id] = max(self._watermark_ms.get(room_id, ts_ms), ts_ms)
Watermark(wm, room_id, ts_ms) ==
    [wm EXCEPT ![room_id] = IF @ = None THEN ts_ms ELSE Max(@, ts_ms)]

\* _prune_transcripts
prune_transcripts(buf, watermark) ==
    IF watermark = None THEN buf
    ELSE SelectSeq(buf, LAMBDA seg : seg.ts_ms >= watermark - transcript_buffer_retention_ms)

\* _record_transcript
record_transcript(buf, watermark, seg) ==
    prune_transcripts(SortSegs(Append(buf, seg)), watermark)

Abs(n) == IF n < 0 THEN 0 - n ELSE n

\* a join that takes every buffered segment of the room
join_transcripts_unwindowed(buf, frame_ts_ms) == SortSegs(buf)

\* _join_transcripts
join_transcripts(buf, frame_ts_ms) ==
    SortSegs(SelectSeq(buf, LAMBDA seg :
                            Abs(seg.ts_ms - frame_ts_ms) <= transcript_join_window_ms))

\* what the source entry sp_batch[1] is
SpEntry(key) == IF key[1] = FramesKey THEN frames_in[key[2]] ELSE transcripts_in[key[2]]

SpKeys(frames, segs) ==
    ({FramesKey} \X (1..Len(frames))) \cup ({TranscriptsKey} \X (1..Len(segs)))

frame_check_unverified(frame) ==
    IF frame.room_id = "" THEN "no_room"
    ELSE IF frame.path_blank THEN "no_path"
    ELSE IF frame.file = "missing" THEN "file_missing"
    ELSE IF frame.sha256.digest = "" THEN "no_sha"
    ELSE "llm"

\* _process_frame: the check that stops a frame before the provider is called
frame_check(frame) ==
    IF frame.room_id = "" THEN "no_room"
    ELSE IF frame.path_blank THEN "no_path"
    ELSE IF frame.file = "missing" THEN "file_missing"
    ELSE IF frame.sha256.digest = "" THEN "no_sha"
    ELSE IF Lower(sha256_file(frame)) # Lower(frame.sha256) THEN "sha_mismatch"
    ELSE "llm"

\* a provider response that parses as a JSON object: the four fields that
\* _process_frame cross-checks, and whether the StreamObservation schema accepts it
Observed(room_id, frame_id, frame_sha256, transcript_ids, schema_valid) ==
    [room_id |-> room_id, frame_id |-> frame_id, frame_sha256 |-> frame_sha256,
     transcript_ids |-> transcript_ids, schema_valid |-> schema_valid]

\* [seg.get("id") for seg in transcripts if isinstance(seg.get("id"), str)]
expected_transcript_ids(joined) == [k \in 1..Len(joined) |-> joined[k].id]

\* the same hex digits written in the other letter case
OtherCase(hex) == [hex EXCEPT !.case = IF @ = "lower" THEN "upper" ELSE "lower"]

\* provider.generate(req): the stub echoes the frame and the joined segments, a
\* live model may answer with any object
LlmObservations(frame, joined) ==
    LET ids == expected_transcript_ids(joined)
    IN  { Observed(frame.room_id, frame.id, frame.sha256, ids, TRUE),
          Observed(frame.room_id, frame.id, frame.sha256, ids, FALSE),
          Observed(frame.room_id, frame.id, OtherCase(frame.sha256), ids, TRUE),
          Observed(frame.room_id, frame.id, Hex("dx", "lower"), ids, TRUE),
          Observed("room:other", frame.id, frame.sha256, ids, TRUE),
          Observed(frame.room_id, frame.id + 10, frame.sha256, ids, TRUE),
          Observed(frame.room_id, frame.id, frame.sha256, Append(ids, 9), TRUE),
          Observed(frame.room_id, frame.id, frame.sha256,
                   IF ids = <<>> THEN <<9>> ELSE Tail(ids) \o <<Head(ids)>>, TRUE) }

\* _process_frame: the cross-checks of the parsed response and the schema validation
observation_check(observation, frame, joined) ==
    IF observation.room_id # frame.room_id THEN "room_id mismatch"
    ELSE IF observation.frame_id # frame.id THEN "frame_id mismatch"
    ELSE IF Lower(observation.frame_sha256) # Lower(frame.sha256)
         THEN "frame_sha256 mismatch"
    ELSE IF observation.transcript_ids # expected_transcript_ids(joined)
         THEN "transcript_ids mismatch"
    ELSE IF ~observation.schema_valid THEN "schema"
    ELSE "ok"

NoObs == [frame |-> 0, frame_id |-> 0, room_id |-> "", frame_sha256 |-> Hex("", "lower"),
          transcript_ids |-> <<>>]

MayFailSp == sp_faults < FaultCap

\* run(): `if not self.client: await self.connect()`
S_Connect ==
    /\ InPerceiver
    /\ sp_pc = "run"
    /\ ~sp_client
    /\ \/ /\ sp_client' = TRUE
          /\ sp_group_ok' = TRUE
          /\ sp_pc' = "read"
          /\ UNCHANGED <<sp_faults, redis_failures, sp_losses>>
       \/ /\ MayFailSp                      \* connection error in xgroup_create
          /\ sp_faults' = sp_faults + 1
          /\ sp_client' = TRUE
          /\ sp_group_ok' = FALSE
          /\ redis_failures' = redis_failures + 1
          /\ sp_losses' = OneMoreLoss(sp_losses)
          /\ sp_pc' = "sleep_conn"
       \/ /\ MayFailSp                      \* another ResponseError in xgroup_create
          /\ sp_faults' = sp_faults + 1
          /\ sp_client' = TRUE
          /\ sp_group_ok' = FALSE
          /\ sp_pc' = "sleep_other"
          /\ UNCHANGED <<redis_failures, sp_losses>>
    /\ UNCHANGED <<frames_in, transcripts_in, sp_backoff, sp_cursor, sp_batch, sp_obs,
                     sp_acks, sp_acked, sp_handled, watermark_ms, transcripts,
                     llm_log, observations, processed_frames, processed_transcripts,
                     emitted_observations, llm_calls, llm_failures, schema_failures,
                     sha_mismatch, file_missing>>

\* run(): the handle is kept, so the loop goes straight to _consume_loop
S_Resume ==
    /\ InPerceiver
    /\ sp_pc = "run"
    /\ sp_client
    /\ sp_pc' = "read"
    /\ UNCHANGED <<sp_losses, frames_in, transcripts_in, sp_client, sp_group_ok, sp_backoff,
                     sp_cursor, sp_batch, sp_obs, sp_acks, sp_acked, sp_handled,
                     sp_faults, watermark_ms, transcripts, llm_log,
                     observations, processed_frames, processed_transcripts,
                     emitted_observations, llm_calls, llm_failures, schema_failures,
                     sha_mismatch, file_missing, redis_failures>>

\* the sleep of an except branch of run() ends
S_Wake ==
    /\ InPerceiver
    /\ sp_pc \in {"sleep_conn", "sleep_other"}
    /\ sp_pc' = "run"
    /\ IF sp_pc = "sleep_conn"
       THEN /\ sp_backoff' = next_backoff(sp_backoff)
            /\ sp_client' = FALSE
            /\ sp_group_ok' = FALSE
       ELSE UNCHANGED <<sp_backoff, sp_client, sp_group_ok>>
    /\ UNCHANGED <<sp_losses, frames_in, transcripts_in, sp_cursor, sp_batch, sp_obs, sp_acks,
                     sp_acked, sp_handled, sp_faults, watermark_ms,
                     transcripts, llm_log, observations, processed_frames,
                     processed_transcripts, emitted_observations, llm_calls,
                     llm_failures, schema_failures, sha_mismatch, file_missing,
                     redis_failures>>

SpDelivered(stream, entries) ==
    [i \in 1..Min(sp_read_count, Len(entries) - sp_cursor[stream]) |->
       <<stream, sp_cursor[stream] + i>>]

\* _consume_loop: one xreadgroup on both streams
S_Read ==
    /\ InPerceiver
    /\ sp_pc = "read"
    /\ \/ /\ sp_group_ok
          /\ sp_cursor[TranscriptsKey] < Len(transcripts_in)
                \/ sp_cursor[FramesKey] < Len(frames_in)
          /\ sp_batch' = SpDelivered(TranscriptsKey, transcripts_in)
                           \o SpDelivered(FramesKey, frames_in)
          /\ sp_cursor' = [s \in DOMAIN sp_cursor |->
                             IF s = FramesKey THEN Min(Len(frames_in), sp_cursor[s] + sp_read_count)
                             ELSE Min(Len(transcripts_in), sp_cursor[s] + sp_read_count)]
          /\ sp_pc' = "handle"
          /\ sp_losses' = ReadDone(sp_losses)
          /\ UNCHANGED <<sp_faults, redis_failures>>
       \/ /\ MayFailSp                      \* connection lost
          /\ sp_faults' = sp_faults + 1
          /\ redis_failures' = redis_failures + 1
          /\ sp_losses' = OneMoreLoss(sp_losses)
          /\ sp_pc' = "sleep_conn"
          /\ UNCHANGED <<sp_batch, sp_cursor>>
       \/ /\ ~sp_group_ok                   \* NOGROUP: a ResponseError
          /\ sp_pc' = "sleep_other"
          /\ UNCHANGED <<sp_batch, sp_cursor, sp_faults, redis_failures, sp_losses>>
    /\ UNCHANGED <<frames_in, transcripts_in, sp_client, sp_group_ok, sp_backoff,
                     sp_obs, sp_acks, sp_acked, sp_handled, watermark_ms,
                     transcripts, llm_log, observations, processed_frames,
                     processed_transcripts, emitted_observations, llm_calls,
                     llm_failures, schema_failures, sha_mismatch, file_missing>>

\* _handle_message on a transcripts entry, up to the xack
S_Transcript ==
    /\ InPerceiver
    /\ sp_pc = "handle"
    /\ Head(sp_batch)[1] = TranscriptsKey
    /\ LET key == Head(sp_batch)
           entry == SpEntry(key)
           seg == entry.seg
       IN  /\ sp_handled' = [sp_handled EXCEPT ![key] = @ + 1]
           /\ processed_transcripts' =
                IF entry.kind \in {"invalid", "seg"} THEN processed_transcripts + 1
                ELSE processed_transcripts
           /\ schema_failures' =
                IF entry.kind = "seg" THEN schema_failures ELSE schema_failures + 1
           /\ IF entry.kind = "seg" /\ seg.room_id # ""
              THEN /\ watermark_ms' = Watermark(watermark_ms, seg.room_id, seg.ts_ms)
                   /\ transcripts' =
                        [transcripts EXCEPT
                           ![seg.room_id] =
                              record_transcript(@, watermark_ms'[seg.room_id], seg)]
              ELSE UNCHANGED <<watermark_ms, transcripts>>
    /\ sp_pc' = "ack"
    /\ UNCHANGED <<sp_losses, frames_in, transcripts_in, sp_client, sp_group_ok, sp_backoff,
                     sp_cursor, sp_batch, sp_obs, sp_acks, sp_acked, sp_faults, llm_log, observations, processed_frames,
                     emitted_observations, llm_calls, llm_failures, sha_mismatch,
                     file_missing, redis_failures>>

\* _handle_message on a frames entry, with _process_frame up to its xadd: the
\* provider raises, returns an output the checks reject, or a good observation
S_Frame ==
    /\ InPerceiver
    /\ sp_pc = "handle"
    /\ Head(sp_batch)[1] = FramesKey
    /\ LET key == Head(sp_batch)
           entry == SpEntry(key)
           frame == entry.frame
           check == IF entry.kind = "frame" THEN frame_check(frame) ELSE entry.kind
           wm == IF check \in {"nodata", "badjson", "invalid", "no_room"} THEN watermark_ms
                 ELSE Watermark(watermark_ms, frame.room_id, frame.ts_ms)
           buf == IF check \in {"nodata", "badjson", "invalid", "no_room"} THEN <<>>
                  ELSE prune_transcripts(transcripts[frame.room_id], wm[frame.room_id])
           joined == join_transcripts(buf, frame.ts_ms)
       IN  /\ sp_handled' = [sp_handled EXCEPT ![key] = @ + 1]
           /\ processed_frames' =
                IF entry.kind \in {"invalid", "frame"} THEN processed_frames + 1
                ELSE processed_frames
           /\ watermark_ms' = wm
           /\ transcripts' =
                IF check \in {"nodata", "badjson", "invalid", "no_room"} THEN transcripts
                ELSE [transcripts EXCEPT ![frame.room_id] = buf]
           /\ file_missing' = IF check = "file_missing" THEN file_missing + 1
                              ELSE file_missing
           /\ sha_mismatch' = IF check = "sha_mismatch" THEN sha_mismatch + 1
                              ELSE sha_mismatch
           /\ llm_calls' = IF check = "llm" THEN llm_calls + 1 ELSE llm_calls
           /\ llm_log' = IF check = "llm" THEN Append(llm_log, key[2]) ELSE llm_log
           /\ \E raised \in BOOLEAN, observation \in LlmObservations(frame, joined) :
                LET outcome == IF raised THEN "raise"
                               ELSE IF observation_check(observation, frame, joined) = "ok"
                               THEN "ok"
                               ELSE "bad"
                IN
                /\ check # "llm" =>
                     /\ ~raised
                     /\ observation =
                          Observed(frame.room_id, frame.id, frame.sha256,
                                   expected_transcript_ids(joined), TRUE)
                /\ llm_failures' =
                     IF check = "llm" /\ outcome = "raise" THEN llm_failures + 1
                     ELSE llm_failures
                /\ schema_failures' =
                     IF \/ check \in {"nodata", "badjson", "invalid", "no_path", "no_sha"}
                        \/ check = "llm" /\ outcome = "bad"
                     THEN schema_failures + 1
                     ELSE schema_failures
                /\ IF check = "llm" /\ outcome = "ok"
                   THEN /\ sp_obs' = [frame |-> key[2], frame_id |-> observation.frame_id,
                                      room_id |-> observation.room_id,
                                      frame_sha256 |-> observation.frame_sha256,
                                      transcript_ids |-> observation.transcript_ids]
                        /\ sp_pc' = "xadd"
                   ELSE /\ sp_obs' = NoObs
                        /\ sp_pc' = "ack"
    /\ UNCHANGED <<sp_losses, frames_in, transcripts_in, sp_client, sp_group_ok, sp_backoff,
                     sp_cursor, sp_batch, sp_acks, sp_acked, sp_faults,
                     observations, processed_transcripts, emitted_observations,
                     redis_failures>>

\* _process_frame: the xadd to stream:observations; a failure is caught by the
\* `except Exception` of _handle_message
S_Xadd ==
    /\ InPerceiver
    /\ sp_pc = "xadd"
    /\ \/ /\ observations' = Append(observations, sp_obs)
          /\ emitted_observations' = emitted_observations + 1
          /\ UNCHANGED <<schema_failures, sp_faults>>
       \/ /\ MayFailSp
          /\ sp_faults' = sp_faults + 1
          /\ schema_failures' = schema_failures + 1
          /\ UNCHANGED <<observations, emitted_observations>>
    /\ sp_pc' = "ack"
    /\ UNCHANGED <<sp_losses, frames_in, transcripts_in, sp_client, sp_group_ok, sp_backoff,
                     sp_cursor, sp_batch, sp_obs, sp_acks, sp_acked, sp_handled,
                     watermark_ms, transcripts, llm_log, processed_frames,
                     processed_transcripts, llm_calls, llm_failures, sha_mismatch,
                     file_missing, redis_failures>>

\* _handle_message: the `finally` xack; a failure is logged only
S_Ack ==
    /\ InPerceiver
    /\ sp_pc = "ack"
    /\ sp_acks' = [sp_acks EXCEPT ![Head(sp_batch)] = @ + 1]
    /\ \/ /\ sp_acked' = sp_acked \cup {Head(sp_batch)}
          /\ UNCHANGED sp_faults
       \/ /\ MayFailSp
          /\ sp_faults' = sp_faults + 1
          /\ UNCHANGED sp_acked
    /\ sp_batch' = Tail(sp_batch)
    /\ sp_obs' = NoObs
    /\ sp_pc' = IF Tail(sp_batch) = <<>> THEN "read" ELSE "handle"
    /\ UNCHANGED <<sp_losses, frames_in, transcripts_in, sp_client, sp_group_ok, sp_backoff,
                     sp_cursor, sp_handled, watermark_ms, transcripts,
                     llm_log, observations, processed_frames, processed_transcripts,
                     emitted_observations, llm_calls, llm_failures, schema_failures,
                     sha_mismatch, file_missing, redis_failures>>

InitSpFrom(feed, frames, segs, pc) ==
    /\ frames_in = frames
    /\ transcripts_in = segs
    /\ sp_pc = pc
    /\ sp_client = FALSE
    /\ sp_group_ok = FALSE
    /\ sp_backoff = 1
    /\ sp_losses = NoLosses
    /\ sp_cursor = [s \in {FramesKey, TranscriptsKey} |-> 0]
    /\ sp_batch = <<>>
    /\ sp_obs = NoObs
    /\ sp_acks = [k \in SpKeys(feed.frames, feed.transcripts) |-> 0]
    /\ sp_acked = {}
    /\ sp_handled = [k \in SpKeys(feed.frames, feed.transcripts) |-> 0]
    /\ sp_faults = 0
    /\ watermark_ms = [r \in Rooms |-> None]
    /\ transcripts = [r \in Rooms |-> <<>>]
    /\ llm_log = <<>>
    /\ observations = <<>>
    /\ processed_frames = 0
    /\ processed_transcripts = 0
    /\ emitted_observations = 0
    /\ llm_calls = 0
    /\ llm_failures = 0
    /\ schema_failures = 0
    /\ sha_mismatch = 0
    /\ file_missing = 0
    /\ redis_failures = 0

\* the perceiver started on streams that hold the whole feed
InitSp(feed, pc) == InitSpFrom(feed, feed.frames, feed.transcripts, pc)

\* the perceiver's state in a behaviour of another process
NoPerceiver == InitSp([frames |-> <<>>, transcripts |-> <<>>], "off")

----------------------------------------------------------------------------
(* The processes and their specifications *)

\* the gateway process with no websocket client: bus loop and fan-out worker
InitGateway ==
    /\ svc = "gateway"
    /\ NoCall
    /\ \E entries \in [1..MaxIngest -> GatewayEntries] : InitBus(entries, 0)
    /\ InitWs(QueueSize, {})
    /\ NoWorker
    /\ NoPerceiver

NextGateway ==
    \/ G_Connect
    \/ G_Resume
    \/ G_Wake
    \/ G_Read
    \/ G_Process
    \/ G_Xadd
    \/ G_Ack
    \/ WorkerGet

\* a caller of enqueue_broadcast (the handler's call, taken alone)
EnqueueCall ==
    /\ svc \in {"fanout", "fifo"}
    /\ UNCHANGED <<svc, lib_pc, lib_in, lib_out, pwvars, spvars>>
    /\ UNCHANGED gvars
    /\ n_enq < MaxCalls
    /\ \E room_id \in Rooms :
          EnqueueBroadcast(room_id, HumanMsg(n_enq + 1, room_id, <<"a">>))
    /\ UNCHANGED <<max_queue_size, rooms, w_pc, w_item, w_targets, w_results, c_pc,
                   c_room, c_first, dispatch_log>>

\* the WebSocketManager with its clients and its worker, under any caller
InitFanout ==
    /\ svc = "fanout"
    /\ NoCall
    /\ InitBus(<<>>, MaxFaults)
    /\ InitWs(QueueSize, Sockets)
    /\ NoWorker
    /\ NoPerceiver

NextFanout ==
    \/ EnqueueCall
    \/ WorkerGet
    \/ \E ws \in Sockets : WorkerSend(ws)
    \/ WorkerReap
    \/ \E ws \in Sockets : ClientSubscribe(ws)
    \/ \E ws \in Sockets : ClientAck(ws)
    \/ \E ws \in Sockets : ClientDisconnect(ws)

\* the same with a queue that holds several items at once
InitFifo ==
    /\ svc = "fifo"
    /\ NoCall
    /\ InitBus(<<>>, MaxFaults)
    /\ InitWs(FifoQueueSize, Sockets)
    /\ NoWorker
    /\ NoPerceiver

\* the subscribe handshake of handle_client, for every first frame
InitHandshake ==
    /\ svc = "handshake"
    /\ NoCall
    /\ InitBus(<<>>, MaxFaults)
    /\ InitWs(QueueSize, Sockets)
    /\ NoWorker
    /\ NoPerceiver

NextHandshake ==
    \/ \E ws \in Sockets : ClientSubscribe(ws)
    \/ \E ws \in Sockets : ClientAck(ws)
    \/ \E ws \in Sockets : ClientDisconnect(ws)

\* the overload scenario: a burst of valid messages for one room, one subscriber
\* of that room whose send does not complete, no broker failure
InitOverload ==
    /\ svc = "overload"
    /\ NoCall
    /\ InitBus([i \in 1..OverloadBurst |->
                  [kind |-> "msg", msg |-> HumanMsg(i, "room:demo", <<"a">>)]], MaxFaults)
    /\ max_queue_size = OverloadQueueSize
    /\ rooms = [r \in {"room:demo"} |-> {"ws1"}]
    /\ broadcast_queue = <<>>
    /\ w_pc = "get"
    /\ w_item = NoItem
    /\ w_targets = {}
    /\ w_results = [ws \in Sockets |-> "none"]
    /\ c_pc = [ws \in Sockets |-> IF ws = "ws1" THEN "stalled" ELSE "closed"]
    /\ c_room = [ws \in Sockets |-> "room:demo"]
    /\ c_first = [ws \in Sockets |-> NoFrameYet]
    /\ n_enq = 0
    /\ n_accepted = 0
    /\ enq_rejected = {}
    /\ dispatch_log = <<>>
    /\ NoWorker
    /\ NoPerceiver

NextOverload ==
    \/ G_Connect
    \/ G_Read
    \/ G_Process
    \/ G_Xadd
    \/ G_Ack
    \/ WorkerGet

\* the gateway's state in a behaviour of another process
NoGateway == InitBus(<<>>, 0) /\ InitWs(0, {})

\* the persona worker on one of the feeds, with one of the room configs
InitWorker ==
    /\ svc = "worker"
    /\ NoCall
    /\ \E feed \in WorkerFeeds, cfg \in RoomConfigs :
          InitPw(feed, cfg, dedupe_cache_size, "connect", 0)
    /\ NoGateway
    /\ NoPerceiver

NextWorker ==
    \/ \E d \in ClockSteps : Tick(d)
    \/ P_Connect
    \/ P_ConnectWake
    \/ P_Read
    \/ P_Wake
    \/ P_ReadAck
    \/ P_Handle
    \/ P_Decide
    \/ P_Publish
    \/ P_Record
    \/ P_Ack

\* State.seen_before on any sequence of message ids
InitDedupe ==
    /\ svc = "dedupe"
    /\ NoCall
    /\ InitPw(<<>>, RoomConfig("", <<>>, soft_cooldown_ms, None, 0), dedupe_cache_size,
              "off", 0)
    /\ NoGateway
    /\ NoPerceiver

NextDedupe == \E message_id \in 1..MaxIds : SeenBeforeCall(message_id)

\* the persona worker on the burst of scenario S3
InitBurst ==
    /\ svc = "burst"
    /\ NoCall
    /\ \E cfg \in BurstConfigs : InitPw(BurstFeed, cfg, dedupe_cache_size, "connect", 0)
    /\ NoGateway
    /\ NoPerceiver

\* (every entry of the burst holds data: read_messages has nothing to skip)
NextBurst ==
    \/ BurstTick
    \/ P_Connect
    \/ P_ConnectWake
    \/ P_Read
    \/ P_Wake
    \/ P_Handle
    \/ P_Decide
    \/ P_Publish
    \/ P_Record
    \/ P_Ack

\* the closed loop ingest -> gateway -> firehose -> persona worker -> ingest, on
\* human messages that hold a forced marker ("m"), without broker failures
LoopHumans ==
    << [kind |-> "msg", msg |-> HumanMsg(1, "room:demo", <<"m">>)],
       [kind |-> "msg", msg |-> HumanMsg(2, "room:demo", <<"m">>)] >>

LoopConfig == RoomConfig("room:demo", Personas, 0, None, BurstBudget)

\* json.loads of a firehose entry, as the worker reads it
FirehosePayload(msg) ==
    [kind |-> "msg",
     msg |-> ChatPayload(msg.id, msg.room_id, msg.origin, "m" \in SeqToSet(msg.content),
                         {}, FALSE)]

\* the ingest entry of the k-th reply: a fresh id, and a content that repeats
\* the marker
ReplyEntry(k) ==
    [kind |-> "msg",
     msg |-> [HumanMsg(Len(LoopHumans) + k, ingest_out[k].room_id, <<"m">>) EXCEPT
                !.origin = ingest_out[k].origin]]

\* an entry of stream:chat.firehose becomes readable by the worker's group
LoopDeliver ==
    /\ svc = "loop"
    /\ Len(firehose_in) < Len(firehose)
    /\ firehose_in' = Append(firehose_in, FirehosePayload(firehose[Len(firehose_in) + 1].msg))
    /\ pw_acks' = Append(pw_acks, 0)
    /\ pw_handled' = Append(pw_handled, 0)
    /\ UNCHANGED <<svc, lib_pc, lib_in, lib_out, gvars, wsvars, spvars>>
    /\ UNCHANGED <<pw_stop, now, ticks, room_cfg, pw_pc, pw_redis, pw_group_ok, pw_backoff,
                     pw_cursor, pw_nodata, pw_batch, pw_personas, pw_decision, pw_acked,
                     pw_faults, dedupe_size, dedupe_cache, seen_call, bot_publish_times,
                     event_times, recent_messages, last_spoke_at_ms, persona_published,
                     mention_events, ingest_out, pw_consumed, messages_deduped,
                     messages_published, messages_suppressed_cooldown,
                     messages_suppressed_budget, messages_suppressed_bot_origin>>

\* a reply appended by the worker becomes readable by the gateway's group
LoopReturn ==
    /\ svc = "loop"
    /\ Len(ingest) - Len(LoopHumans) < Len(ingest_out)
    /\ ingest' = Append(ingest, ReplyEntry(Len(ingest) - Len(LoopHumans) + 1))
    /\ g_acks' = Append(g_acks, 0)
    /\ UNCHANGED <<svc, lib_pc, lib_in, lib_out, pwvars, wsvars, spvars>>
    /\ UNCHANGED <<g_stop, g_pc, g_client, g_group_ok, g_backoff, g_losses, g_sleep, g_cursor,
                   g_batch, g_cur, g_acked, g_faults, firehose, messages_consumed,
                   messages_broadcast, messages_dropped, g_last_enq>>

InitLoop ==
    /\ svc = "loop"
    /\ NoCall
    /\ InitBus(LoopHumans, MaxFaults)
    /\ InitWs(QueueSize, {})
    /\ InitPw(<<>>, LoopConfig, dedupe_cache_size, "connect", MaxFaults)
    /\ NoPerceiver

LoopGateway == G_Connect \/ G_Read \/ G_Process \/ G_Xadd \/ G_Ack

LoopWorker ==
    P_Connect \/ P_Read \/ P_Handle \/ P_Decide \/ P_Publish \/ P_Record \/ P_Ack

LoopStreams == LoopDeliver \/ LoopReturn

NextLoop == LoopGateway \/ LoopWorker \/ LoopStreams

\* the run loops of the gateway and of the perceiver through broker outages
OutageIngest ==
    << [kind |-> "msg", msg |-> HumanMsg(1, "room:demo", <<"a">>)],
       [kind |-> "msg", msg |-> HumanMsg(2, "room:demo", <<"a">>)] >>

OutageFeed ==
    [frames |-> <<Frame(1, 10000, "present", "d1", Hex("d1", "lower"))>>,
     transcripts |-> <<Segment(1, 0)>>]

InitOutage ==
    \/ /\ svc = "gateway_outage"
       /\ NoCall
       /\ InitBus(OutageIngest, 0)
       /\ InitWs(QueueSize, {})
       /\ NoWorker
       /\ NoPerceiver
    \/ /\ svc = "perceiver_outage"
       /\ NoCall
       /\ InitSp(OutageFeed, "run")
       /\ NoGateway
       /\ NoWorker

\* the gateway and the persona worker with a shutdown request at any moment,
\* on empty streams
InitShutdown ==
    \/ /\ svc = "gateway_shutdown"
       /\ NoCall
       /\ InitBus(<<>>, 0)
       /\ InitWs(QueueSize, {})
       /\ NoWorker
       /\ NoPerceiver
    \/ /\ svc = "worker_shutdown"
       /\ NoCall
       /\ InitPw(<<>>, LoopConfig, dedupe_cache_size, "connect", 0)
       /\ NoGateway
       /\ NoPerceiver

NextShutdown ==
    \/ G_Connect
    \/ G_Resume
    \/ G_Wake
    \/ G_Read
    \/ G_Exit
    \/ GatewayShutdown
    \/ P_Connect
    \/ P_ConnectWake
    \/ P_Read
    \/ P_Wake
    \/ P_Exit
    \/ WorkerShutdown

\* the stream perceiver on one of the feeds
InitPerceiver ==
    /\ svc = "perceiver"
    /\ NoCall
    /\ \E feed \in PerceiverFeeds : InitSp(feed, "run")
    /\ NoGateway
    /\ NoWorker

NextPerceiver ==
    \/ S_Connect
    \/ S_Resume
    \/ S_Wake
    \/ S_Read
    \/ S_Transcript
    \/ S_Frame
    \/ S_Xadd
    \/ S_Ack

\* the three consuming services, each in its own process
NextOutage == NextGateway \/ NextPerceiver

Init == InitGateway \/ InitWorker \/ InitPerceiver

Next == NextGateway \/ NextWorker \/ NextPerceiver

libvars == <<lib_pc, lib_in, lib_out>>

vars == <<svc, gvars, wsvars, pwvars, spvars, libvars>>

----------------------------------------------------------------------------
(* memory_runtime/mem0_client.py.  A value of a payload is absent (the key   *)
(* is not in the dict), None, a str (a sequence of characters, "s" a space)  *)
(* or an int.                                                                *)

Absent == [t |-> "absent", s |-> <<>>, n |-> 0]

PyNone == [t |-> "none", s |-> <<>>, n |-> 0]

PyStr(s) == [t |-> "str", s |-> s, n |-> 0]

PyInt(n) == [t |-> "int", s |-> <<>>, n |-> n]

\* str(n) of an int that is not negative
RECURSIVE IntStr(_)
IntStr(n) ==
    LET digit == <<"0", "1", "2", "3", "4", "5", "6", "7", "8", "9">>[(n % 10) + 1]
    IN  IF n < 10 THEN <<digit>> ELSE IntStr(n \div 10) \o <<digit>>

_IDENTIFIER_KEYS == <<"app_id", "user_id", "agent_id", "run_id">>

IdentifierKeys == {_IDENTIFIER_KEYS[i] : i \in 1..Len(_IDENTIFIER_KEYS)}

\* a mapping without any of the identifier keys
NoIdentifiers == [key \in IdentifierKeys |-> Absent]

\* the truth value Python gives a value
Truthy(v) == (v.t = "str" /\ v.s # <<>>) \/ (v.t = "int" /\ v.n # 0)

\* a variant that keeps a str as it is
_normalized_identifier_value_unstripped(raw_value) ==
    IF raw_value.t \in {"absent", "none"} THEN PyNone
    ELSE IF raw_value.t = "str"
         THEN (IF raw_value.s = <<>> THEN PyNone ELSE raw_value)
         ELSE PyStr(IntStr(raw_value.n))

\* _normalized_identifier_value (mapping.get(key) of a missing key is None)
_normalized_identifier_value(raw_value) ==
    IF raw_value.t \in {"absent", "none"} THEN PyNone
    ELSE LET value == IF raw_value.t = "str" THEN Strip(raw_value.s)
                      ELSE Strip(IntStr(raw_value.n))
         IN  IF value = <<>> THEN PyNone ELSE PyStr(value)

\* _has_identifiers
_has_identifiers(mapping) ==
    \E key \in IdentifierKeys : mapping[key].t = "str" /\ Strip(mapping[key].s) # <<>>

\* Mem0Client.__init__: `(app_id or "").strip() or None`
ClientAppId(app_id) ==
    IF Truthy(app_id) /\ Strip(app_id.s) # <<>> THEN PyStr(Strip(app_id.s)) ELSE PyNone

\* the `filters` of a payload: absent, something that is not a dict, or a dict
\* with its identifier keys and whether it has any other key
Filters(kind, ids, other) == [kind |-> kind, ids |-> ids, other |-> other]

NoFilters == Filters("absent", NoIdentifiers, FALSE)

\* a payload: its top-level identifier keys and its `filters`
Payload(ids, filters) == [ids |-> ids, filters |-> filters]

\* an exception raised before the request, or the payload handed to _request
Raised(error) == [raised |-> TRUE, error |-> error, payload |-> Payload(NoIdentifiers, NoFilters)]

Returned(payload) == [raised |-> FALSE, error |-> "", payload |-> payload]

\* _normalize_add_payload
_normalize_add_payload(client_app_id, payload) ==
    LET filters == IF payload.filters.kind = "dict" THEN payload.filters.ids
                   ELSE NoIdentifiers
        lifted == [key \in IdentifierKeys |->
                     LET existing == _normalized_identifier_value(payload.ids[key])
                         from_filters == _normalized_identifier_value(filters[key])
                     IN  IF Truthy(existing) THEN existing
                         ELSE IF Truthy(from_filters) THEN from_filters
                         ELSE Absent]
        with_app == IF Truthy(client_app_id)
                       /\ ~Truthy(_normalized_identifier_value(lifted["app_id"]))
                    THEN [lifted EXCEPT !["app_id"] = client_app_id]
                    ELSE lifted
        enriched == [key \in IdentifierKeys |->
                       LET normalized == _normalized_identifier_value(with_app[key])
                       IN  IF Truthy(normalized) THEN normalized ELSE Absent]
    IN  IF ~_has_identifiers(enriched)
        THEN Raised("mem0_identifiers_required")
        ELSE Returned(Payload(enriched, NoFilters))

\* _normalize_search_payload
_normalize_search_payload(client_app_id, payload) ==
    LET raw == IF payload.filters.kind = "dict" THEN payload.filters.ids
               ELSE NoIdentifiers
        other == payload.filters.kind = "dict" /\ payload.filters.other
        moved == [key \in IdentifierKeys |->
                    LET top == _normalized_identifier_value(payload.ids[key])
                    IN  IF payload.ids[key].t # "absent" /\ Truthy(top) THEN top
                        ELSE raw[key]]
        cleaned == [key \in IdentifierKeys |->
                      IF moved[key].t = "absent" THEN Absent
                      ELSE LET normalized == _normalized_identifier_value(moved[key])
                           IN  IF Truthy(normalized) THEN normalized ELSE Absent]
        filters == IF Truthy(client_app_id)
                      /\ ~Truthy(_normalized_identifier_value(cleaned["app_id"]))
                   THEN [cleaned EXCEPT !["app_id"] = client_app_id]
                   ELSE cleaned
    IN  IF ~_has_identifiers(filters)
        THEN Raised("mem0_identifiers_required")
        ELSE Returned(Payload(NoIdentifiers, Filters("dict", filters, other)))

\* the values the calls are tried with: a key left out, None, a blank str, a
\* str with spaces around it, an int
IdentifierValues ==
    {Absent, PyNone, PyStr(<<"s">>), PyStr(<<"s", "u", "s">>), PyInt(7)}

Mem0Ids ==
    {[key \in IdentifierKeys |->
        IF key = "app_id" THEN a ELSE IF key = "user_id" THEN u
        ELSE IF key = "run_id" THEN r ELSE Absent] :
     a \in IdentifierValues, u \in IdentifierValues, r \in {Absent, PyStr(<<"r">>)}}

Mem0Filters ==
    {NoFilters, Filters("nondict", NoIdentifiers, FALSE)}
    \cup {Filters("dict", ids, TRUE) : ids \in Mem0Ids}

Mem0AppIds == {PyNone, PyStr(<<"s">>), PyStr(<<"c", "s">>)}

\* add_memory / search_memories: normalize, then _request unless it raised
Mem0Call ==
    /\ svc = "mem0"
    /\ lib_pc = "call"
    /\ LET client_app_id == ClientAppId(lib_in.app_id)
           normalized == IF lib_in.op = "add_memory"
                         THEN _normalize_add_payload(client_app_id, lib_in.payload)
                         ELSE _normalize_search_payload(client_app_id, lib_in.payload)
       IN  lib_out' = [result |-> normalized,
                       requests |-> IF normalized.raised THEN 0 ELSE 1]
    /\ lib_pc' = "done"
    /\ UNCHANGED <<svc, lib_in, gvars, wsvars, pwvars, spvars>>

InitMem0 ==
    /\ svc = "mem0"
    /\ lib_pc = "call"
    /\ \E op \in {"add_memory", "search_memories"}, app_id \in Mem0AppIds,
          ids \in Mem0Ids, filters \in Mem0Filters :
          lib_in = [op |-> op, app_id |-> app_id, payload |-> Payload(ids, filters)]
    /\ lib_out = <<>>
    /\ NoGateway
    /\ NoWorker
    /\ NoPerceiver

SpecMem0 == InitMem0 /\ [][Mem0Call]_vars


----------------------------------------------------------------------------
(* persona_workers/main.py and memory_runtime: memory extraction.  A value   *)
(* is a sequence of tokens: "w" a word, "e" a text a redaction pattern       *)
(* matches, "s" white space, "R" the text [REDACTED].                        *)

MaxValueLen == 2
MaxCandidates == 2

RECURSIVE SeqsUpTo(_, _)
SeqsUpTo(S, n) ==
    IF n = 0 THEN {<<>>}
    ELSE SeqsUpTo(S, n - 1) \cup {Append(q, x) : q \in SeqsUpTo(S, n - 1), x \in S}

MemoryValues == SeqsUpTo({"w", "e", "s", "R"}, MaxValueLen)

\* apply_redactions: every match of a pattern becomes [REDACTED], and the
\* pattern is noted; without `redaction.enabled` there is no pattern
apply_redactions(text, enabled) ==
    LET hit == enabled /\ \E i \in 1..Len(text) : text[i] = "e"
    IN  [value |-> IF hit THEN [i \in 1..Len(text) |-> IF text[i] = "e" THEN "R" ELSE text[i]]
                   ELSE text,
         notes |-> IF hit THEN <<"email">> ELSE <<>>]

\* a check that lets through everything but the empty value
redacts_to_nothing_if_empty(redacted_value) == redacted_value = <<>>

\* `not redacted_value or redacted_value.replace("[REDACTED]", "").strip() == ""`
redacts_to_nothing(redacted_value) ==
    \/ redacted_value = <<>>
    \/ Strip(SelectSeq(redacted_value, LAMBDA c : c # "R")) = <<>>

\* `" ".join(raw_value.split()).strip()`
RECURSIVE JoinSplit(_)
JoinSplit(raw_value) ==
    LET c == Strip(raw_value)
    IN  IF Len(c) < 2 THEN c
        ELSE IF c[1] = "s" /\ c[2] = "s" THEN JoinSplit(Tail(c))
        ELSE <<c[1]>> \o JoinSplit(Tail(c))

\* what became of one candidate write
Write(path, value, outcome) == [path |-> path, value |-> value, outcome |-> outcome]

\* the counters and the store calls of one _maybe_extract_memory call
NoExtract == [writes |-> <<>>, rejected |-> 0, handled |-> FALSE, raised |-> FALSE]

\* LLMMemoryExtractor.extract and the upsert loop of _llm_extract, candidate by
\* candidate; `verdicts[i]` is what validation, the policy and the store say of
\* the i-th candidate
RECURSIVE LlmWrites(_, _, _, _)
LlmWrites(candidates, verdicts, enabled, acc) ==
    IF candidates = <<>> THEN acc
    ELSE LET redacted_value == apply_redactions(Strip(Head(candidates)), enabled).value
             outcome == IF redacts_to_nothing(redacted_value) THEN "rejected"
                        ELSE IF Head(verdicts) = "denied" THEN "rejected"
                        ELSE IF Head(verdicts) = "store_error" THEN "failed"
                        ELSE "upserted"
             next == [acc EXCEPT
                        !.writes = Append(@, Write("llm", redacted_value, outcome)),
                        !.rejected = IF outcome = "rejected" THEN @ + 1 ELSE @,
                        !.handled = @ \/ outcome = "upserted"]
         IN  LlmWrites(Tail(candidates), Tail(verdicts), enabled, next)

\* _llm_extract: the provider or the parsing fails, or the candidates are gone
\* through
_llm_extract(call, llm_ok, verdicts) ==
    IF ~llm_ok THEN NoExtract
    ELSE LlmWrites(call.candidates, verdicts, call.enabled, NoExtract)

\* _heuristic_extract, from the value of the message on; `verdict` is what
\* validation, the policy, the write limit and the store say
_heuristic_extract(call, verdict, acc) ==
    LET value_clean == JoinSplit(call.raw_value)
        redacted_value == apply_redactions(value_clean, call.enabled).value
        outcome == IF redacts_to_nothing(redacted_value) THEN "rejected"
                   ELSE IF verdict = "denied" THEN "rejected"
                   ELSE IF verdict = "store_error" THEN "failed"
                   ELSE "upserted"
    IN  IF value_clean = <<>>
        THEN [acc EXCEPT !.writes = Append(@, Write("heuristic", <<>>, "rejected"))]
        ELSE [acc EXCEPT
                !.writes = Append(@, Write("heuristic", redacted_value, outcome)),
                !.rejected = IF outcome = "rejected" THEN @ + 1 ELSE @,
                !.handled = outcome = "upserted"]

\* _maybe_extract_memory, once the message is known to ask for a memory
_maybe_extract_memory(call, llm_ok, verdicts, verdict) ==
    LET after_llm == IF call.strategy = "llm" THEN _llm_extract(call, llm_ok, verdicts)
                     ELSE NoExtract
        after == IF after_llm.handled THEN after_llm
                 ELSE _heuristic_extract(call, verdict, after_llm)
    IN  IF ~after.handled /\ after.rejected = 0
        THEN [after EXCEPT !.rejected = 1]
        ELSE after

\* "denied": validation, the policy or the write limit turns the item down;
\* "store_error": from_dict or upsert raises, which the caller catches
MemoryVerdicts == {"ok", "denied", "store_error"}

\* one _maybe_extract_memory call of _handle_message
MemoryExtract ==
    /\ svc = "memory"
    /\ lib_pc = "call"
    /\ \E llm_ok \in BOOLEAN, verdict \in MemoryVerdicts,
          verdicts \in [1..Len(lib_in.candidates) -> MemoryVerdicts] :
          lib_out' = _maybe_extract_memory(lib_in, llm_ok, verdicts, verdict)
    /\ lib_pc' = "done"
    /\ UNCHANGED <<svc, lib_in, gvars, wsvars, pwvars, spvars>>

InitMemory ==
    /\ svc = "memory"
    /\ lib_pc = "call"
    /\ \E strategy \in {"heuristic", "llm"}, enabled \in BOOLEAN,
          raw_value \in MemoryValues,
          candidates \in SeqsUpTo({<<"e">>, <<"w">>, <<"s", "e">>},
                                  MaxCandidates) :
          lib_in = [strategy |-> strategy, enabled |-> enabled, raw_value |-> raw_value,
                    candidates |-> IF strategy = "llm" THEN candidates ELSE <<>>]
    /\ lib_out = <<>>
    /\ NoGateway
    /\ NoWorker
    /\ NoPerceiver

SpecMemory == InitMemory /\ [][MemoryExtract]_vars


----------------------------------------------------------------------------
(* persona_workers/generator.py and text_utils.py.  A text is a sequence of  *)
(* tokens, and its length is counted in tokens: "s" is a space, "n" a line   *)
(* break, "@" a mention (@name), "w" a word, and a template, an emote or a   *)
(* marker is one token.                                                      *)

DEFAULT_EMOTES == <<"Kappa", "PogChamp", "FeelsOkayMan", "OMEGALUL">>

TEMPLATE_FAMILIES ==
    << <<"lol", "true", "nah", "W", "L", "real">>,
       <<"POGGERS", "W PLAY", "HYPE", "LET'S GO">>,
       <<"nice", "solid", "clean", "ok then">>,
       <<"what happened?", "for real?", "actually?">> >>

PersonaNo(persona_id) == CHOOSE k \in 1..Len(Personas) : Personas[k] = persona_id

\* _deterministic_index: blake2b of the seed, reduced; the seed is
\* "{event_id}:{persona_id}:{salt}", and the digest is stood for by a fixed
\* arithmetic mix of its three parts
_deterministic_index(event_id, persona_id, salt, modulo) ==
    (3 * event_id + 3 * PersonaNo(persona_id) + 7 * salt) % modulo

\* the salts of the seeds: "tpl", "tpl:choice", "emote", "emote:flip"
SaltTpl == 0
SaltChoice == 1
SaltEmote == 2
SaltFlip == 3

\* text_utils.sanitize_text
sanitize_text(value) ==
    JoinSplit([i \in 1..Len(value) |-> IF value[i] = "n" THEN "s" ELSE value[i]])

\* text_utils.strip_mentions
strip_mentions(value) == SelectSeq(value, LAMBDA t : t # "@")

\* text_utils.truncate
truncate(value, max_chars) ==
    IF max_chars <= 0 THEN <<>>
    ELSE IF Len(value) <= max_chars THEN value
    ELSE IF max_chars <= 1 THEN SubSeq(value, 1, max_chars)
    ELSE SubSeq(value, 1, max_chars - 1) \o <<"...">>

\* text_utils.choose_from_list
choose_from_list(items, idx) ==
    IF items = <<>> THEN <<>> ELSE items[(idx % Len(items)) + 1]

\* _extract_marker
_extract_marker(content) ==
    IF \E i \in 1..Len(content) : content[i] = "E2E_TEST_" THEN "E2E_TEST_"
    ELSE IF \E i \in 1..Len(content) : content[i] = "E2E_MARKER_" THEN "E2E_MARKER_"
    ELSE ""

\* `" ".join(words)`
RECURSIVE JoinWords(_)
JoinWords(words) ==
    IF words = <<>> THEN <<>>
    ELSE IF Len(words) = 1 THEN words
    ELSE <<Head(words), "s">> \o JoinWords(Tail(words))

\* _sanitize_echo: the first three words, punctuation taken out (the name of a
\* mention is a word)
_sanitize_echo(content) ==
    LET words == SelectSeq([i \in 1..Len(content) |->
                               IF content[i] = "@" THEN "w" ELSE content[i]],
                           LAMBDA t : t \notin {"s", "n"})
    IN  JoinWords(SubSeq(words, 1, Min(3, Len(words))))

\* _maybe_add_emote
_maybe_add_emote(base, persona_id, event_id, room, max_chars) ==
    LET emote_list == IF room.allowed_emotes = <<>> THEN DEFAULT_EMOTES
                      ELSE room.allowed_emotes
        emote_idx == _deterministic_index(event_id, persona_id, SaltEmote, Len(emote_list))
        include_emote == _deterministic_index(event_id, persona_id, SaltFlip, 2) = 0
    IN  IF include_emote
        THEN truncate(Strip(base \o <<"s", emote_list[emote_idx + 1]>>), max_chars)
        ELSE base

\* the reply before the closing strip_mentions / sanitize_text / truncate
ReplyDraft(persona_cfg, room, event_msg, tags, shift) ==
    LET persona_id == persona_cfg.persona_id
        content == event_msg.content
        marker == _extract_marker(content)
        event_id == event_msg.id
        tpl_family_idx == (_deterministic_index(event_id, persona_id, SaltTpl,
                                                Len(TEMPLATE_FAMILIES) + 1) + shift)
                              % (Len(TEMPLATE_FAMILIES) + 1)
        templates == TEMPLATE_FAMILIES[(tpl_family_idx % Len(TEMPLATE_FAMILIES)) + 1]
        reply_seed_idx == _deterministic_index(event_id, persona_id, SaltChoice,
                                               Len(templates))
        chosen == <<choose_from_list(templates, reply_seed_idx)>>
        echo == _sanitize_echo(content)
        base_reply ==
            IF tpl_family_idx = 2 /\ echo # <<>> THEN Strip(echo \o <<"s">> \o chosen)
            ELSE IF tpl_family_idx = 3 /\ persona_cfg.catchphrases # <<>>
                 THEN choose_from_list(persona_cfg.catchphrases, reply_seed_idx)
            ELSE chosen
    IN  IF tags.reason = "e2e_forced" \/ marker # ""
        THEN <<"got it:", "s", IF marker # "" THEN marker ELSE "E2E_MARKER_", "s", "(check)">>
        ELSE _maybe_add_emote(base_reply, persona_id, event_id, room,
                              persona_cfg.max_chars)

\* a generator whose choice of template moves with the messages seen so far
generate_reply_by_state(persona_cfg, room, event_msg, state, tags) ==
    LET reply == truncate(sanitize_text(strip_mentions(
                     ReplyDraft(persona_cfg, room, event_msg, tags, state.seen))),
                     persona_cfg.max_chars)
    IN  IF reply = <<>> THEN <<"ok">> ELSE reply

\* DeterministicReplyGenerator.generate_reply
generate_reply(persona_cfg, room, event_msg, state, tags) ==
    LET reply == truncate(sanitize_text(strip_mentions(
                     ReplyDraft(persona_cfg, room, event_msg, tags, 0))),
                     persona_cfg.max_chars)
    IN  IF reply = <<>> THEN <<"ok">> ELSE reply

\* the runtime state a call may find: messages seen so far and the clock
GeneratorStates == {[seen |-> n, now_ms |-> t] : n \in 0..1, t \in {StartMs, StartMs + 1500}}

GeneratorContents ==
    SeqsUpTo({"w", "@", "E2E_TEST_"}, 2) \cup {<<"s", "n">>, <<"w", "n", "@">>}

\* one call of generate_reply, in whatever state the service is then
GenerateReply ==
    /\ svc = "generator"
    /\ lib_pc \in {"call", "again"}
    /\ \E state \in GeneratorStates :
          lib_out' = Append(lib_out,
                            [state |-> state,
                             reply |-> generate_reply(lib_in.persona_cfg, lib_in.room_cfg,
                                                      lib_in.event_msg, state, lib_in.tags)])
    /\ lib_pc' = IF lib_pc = "call" THEN "again" ELSE "done"
    /\ UNCHANGED <<svc, lib_in, gvars, wsvars, pwvars, spvars>>

InitGenerator ==
    /\ svc = "generator"
    /\ lib_pc = "call"
    /\ \E event_id \in 1..MaxIds, persona_id \in PersonaIds, max_chars \in {0, 1, 2, 200},
          catchphrases \in {<<>>, << <<"@">> >>, << <<"w", "s", "@">>, <<"w">> >>},
          allowed_emotes \in {<<>>, <<"@">>}, content \in GeneratorContents,
          reason \in {"e2e_forced", "p_pass"} :
          lib_in = [persona_cfg |-> [persona_id |-> persona_id, max_chars |-> max_chars,
                                     catchphrases |-> catchphrases],
                    room_cfg |-> [allowed_emotes |-> allowed_emotes],
                    event_msg |-> [id |-> event_id, content |-> content],
                    tags |-> [reason |-> reason]]
    /\ lib_out = <<>>
    /\ NoGateway
    /\ NoWorker
    /\ NoPerceiver

SpecGenerator == InitGenerator /\ [][GenerateReply]_vars


----------------------------------------------------------------------------
(* persona_workers/auto_commentary_engine.py: pick_persona.  A selection     *)
(* score is counted in quarters (the digest reduced to 0..3, the boost a     *)
(* number of quarters); a summary is a sequence of tokens: the id as a word, *)
(* "@id", the id inside a longer word, or another word.                      *)

MaxRecent == 2

AutoPersonas == <<"p1", "p2", "p3">>

\* the order of `<` on persona ids
IdRank(persona_id) == CHOOSE k \in 1..Len(AutoPersonas) : AutoPersonas[k] = persona_id

\* sorted({...})
RECURSIVE SortedIds(_)
SortedIds(S) ==
    IF S = {} THEN <<>>
    ELSE LET m == CHOOSE x \in S : \A y \in S : IdRank(x) <= IdRank(y)
         IN  <<m>> \o SortedIds(S \ {m})

Token(kind, id) == [kind |-> kind, id |-> id]

RoomNo(room_id) == IF room_id = "" THEN 0 ELSE IF room_id = "room:demo" THEN 1 ELSE 2

\* seed_base = obs_id or summary or "obs", as the number the digest mixes in
seed_base(observation) ==
    IF observation.id # 0 THEN observation.id
    ELSE IF observation.summary # <<>>
         THEN 10 + Len(observation.summary)
              + Cardinality({i \in 1..Len(observation.summary) :
                                observation.summary[i].kind = "at"})
    ELSE 20

\* _selection_score: blake2b of "{seed_base}:{room_id}:{persona_id}" over 2^64 - 1
_selection_score(base, room_id, persona_id) ==
    (3 * base + 5 * RoomNo(room_id) + 3 * IdRank(persona_id)) % 4

\* _extract_mentions: the id among the normalized entities, "@id" in the
\* lowercased summary, or the id as a whole word of it
_extract_mentions(observation, persona_ids) ==
    {persona_id \in SeqToSet(persona_ids) :
        \/ \E i \in 1..Len(observation.entities) : observation.entities[i] = persona_id
        \/ \E i \in 1..Len(observation.summary) :
              observation.summary[i] = Token("at", persona_id)
        \/ \E i \in 1..Len(observation.summary) :
              observation.summary[i] = Token("word", persona_id)}

\* RuntimeState.auto_recent_personas: the last n ids of the room's ordered
\* short list of recent personas
auto_recent_personas(recent_list, n) ==
    IF n <= 0 THEN <<>>
    ELSE SubSeq(recent_list, Max(1, Len(recent_list) - n + 1), Len(recent_list))

NoBest == [best_id |-> "", best_score |-> -1]

\* the loop with `<=` for `<` in the tie-break
RECURSIVE PickLoopLastWins(_, _, _, _, _, _)
PickLoopLastWins(candidates, base, room_id, mentioned, boost, best) ==
    IF candidates = <<>> THEN best
    ELSE LET persona_id == Head(candidates)
             score == _selection_score(base, room_id, persona_id)
                          + (IF persona_id \in mentioned THEN boost ELSE 0)
         IN  PickLoopLastWins(Tail(candidates), base, room_id, mentioned, boost,
                 IF score >= best.best_score
                 THEN [best_id |-> persona_id, best_score |-> score]
                 ELSE best)

\* pick_persona, the loop over the candidates
RECURSIVE PickLoop(_, _, _, _, _, _)
PickLoop(candidates, base, room_id, mentioned, boost, best) ==
    IF candidates = <<>> THEN best
    ELSE LET persona_id == Head(candidates)
             score == _selection_score(base, room_id, persona_id)
                          + (IF persona_id \in mentioned THEN boost ELSE 0)
         IN  PickLoop(Tail(candidates), base, room_id, mentioned, boost,
                 IF \/ score > best.best_score
                    \/ /\ score = best.best_score
                       /\ (best.best_id = "" \/ IdRank(persona_id) < IdRank(best.best_id))
                 THEN [best_id |-> persona_id, best_score |-> score]
                 ELSE best)

Picked(persona_id, reason) == [persona_id |-> persona_id, reason |-> reason]

\* pick_persona
pick_persona(observation, recent_list, cfg, enabled_personas) ==
    LET persona_ids == SortedIds({pid \in SeqToSet(enabled_personas) : pid # ""})
        avoid_last_n == Max(0, cfg.avoid_repeat_last_n)
        recent == auto_recent_personas(recent_list, avoid_last_n)
        filtered == SelectSeq(persona_ids, LAMBDA pid : pid \notin SeqToSet(recent))
        candidates == IF avoid_last_n > 0 /\ filtered # <<>> THEN filtered ELSE persona_ids
        diversity_reason == IF avoid_last_n > 0
                            THEN IF filtered # <<>> THEN "diversity_filtered"
                                 ELSE "diversity_fallback"
                            ELSE "deterministic"
        mentioned == IF cfg.mention_targeting_enabled
                     THEN _extract_mentions(observation, persona_ids) ELSE {}
        best == PickLoop(candidates, seed_base(observation), observation.room_id,
                         mentioned, cfg.boost, NoBest)
    IN  IF persona_ids = <<>> THEN Picked("", "no_persona")
        ELSE IF best.best_id = ""
             THEN Picked("", IF diversity_reason = "diversity_fallback" THEN "diversity"
                             ELSE "no_persona")
        ELSE IF best.best_id \in mentioned THEN Picked(best.best_id, "mention_targeted")
        ELSE Picked(best.best_id, diversity_reason)

AutoSummaries ==
    {<<>>, <<Token("word", "p1")>>, <<Token("at", "p2")>>, <<Token("inside", "p3")>>,
     <<Token("other", ""), Token("word", "p3")>>}

AutoEnabled ==
    {<<>>, <<"">>, <<"p2", "p1">>, <<"p3", "p1", "p2">>, <<"p2", "p2", "">>, <<"p1", "p3">>}

PickPersona ==
    /\ svc = "picker"
    /\ lib_pc = "call"
    /\ lib_out' = pick_persona(lib_in.observation, lib_in.recent_list, lib_in.cfg,
                               lib_in.enabled_personas)
    /\ lib_pc' = "done"
    /\ UNCHANGED <<svc, lib_in, gvars, wsvars, pwvars, spvars>>

InitPicker ==
    /\ svc = "picker"
    /\ lib_pc = "call"
    /\ \E id \in 0..1, room_id \in Rooms, summary \in AutoSummaries,
          entities \in {<<>>, <<"p1">>, <<"p3", "p2">>},
          recent_list \in SeqsUpTo(SeqToSet(AutoPersonas), MaxRecent),
          n \in 0..2, enabled \in BOOLEAN, boost \in {0, 2},
          enabled_personas \in AutoEnabled :
          lib_in = [observation |-> [id |-> id, room_id |-> room_id, summary |-> summary,
                                     entities |-> entities],
                    recent_list |-> recent_list,
                    cfg |-> [avoid_repeat_last_n |-> n, mention_targeting_enabled |-> enabled,
                             boost |-> boost],
                    enabled_personas |-> enabled_personas]
    /\ lib_out = <<>>
    /\ NoGateway
    /\ NoWorker
    /\ NoPerceiver

SpecPicker == InitPicker /\ [][PickPersona]_vars


----------------------------------------------------------------------------
(* persona_workers/auto_commentary_engine.py: should_emit, and the           *)
(* auto-commentary part of State.  hype_level, the threshold and the weights *)
(* are counted in tenths, an interest score in 1/300.  A summary is a        *)
(* sequence of characters: "w" a lowercase letter, "W" an uppercase one,     *)
(* "!" punctuation, "s" a space.                                             *)

MaxObs == 2
MaxAutoTicks == 2

\* _normalize_tokens
RECURSIVE _normalize_tokens(_, _)
_normalize_tokens(items, normalized) ==
    IF items = <<>> THEN normalized
    ELSE _normalize_tokens(Tail(items),
             IF Head(items) = "" \/ Head(items) \in SeqToSet(normalized) THEN normalized
             ELSE Append(normalized, Head(items)))

\* _normalize_summary
_normalize_summary(text, normalize) ==
    LET cleaned == Strip(text)
        folded == [i \in 1..Len(cleaned) |->
                      IF cleaned[i] = "W" THEN "w"
                      ELSE IF cleaned[i] = "!" THEN "s" ELSE cleaned[i]]
    IN  IF cleaned = <<>> THEN <<>>
        ELSE JoinSplit(IF normalize THEN folded ELSE cleaned)

\* hashlib.sha256(...).hexdigest(), taken as free of collisions
Sha256(text) == <<"sha256">> \o text

\* compute_summary_hash
compute_summary_hash(observation, cfg) ==
    LET normalized == _normalize_summary(observation.summary, cfg.summary_dedupe.normalize)
    IN  IF normalized = <<>> THEN <<>> ELSE Sha256(normalized)

\* compute_interest_score
compute_interest_score(observation, cfg) ==
    LET hype_value == Max(0, Min(10, observation.hype_level))
        tags == SeqToSet(_normalize_tokens(observation.tags, <<>>))
        entities == _normalize_tokens(observation.entities, <<>>)
    IN  3 * hype_value * cfg.interest_weights.hype
        + (IF entities # <<>> THEN 30 * cfg.interest_weights.mentions ELSE 0)
        + 10 * Min(Len(entities), 3) * cfg.interest_weights.entities
        + (IF "hype" \in tags THEN 30 * cfg.interest_weights.tag_hype ELSE 0)

\* _is_interesting
_is_interesting(observation, cfg, score) ==
    \/ observation.hype_level >= cfg.hype_threshold
    \/ SeqToSet(_normalize_tokens(observation.tags, <<>>)) \cap cfg.trigger_tags # {}
    \/ cfg.trigger_on_entities /\ \E i \in 1..Len(observation.entities) :
                                     observation.entities[i] # ""
    \/ score >= 30 * cfg.hype_threshold

\* State.__init__, the auto-commentary part
NoAutoState ==
    [auto_room_last_spoke |-> [r \in Rooms |-> None],
     auto_observation_counts |-> <<>>,
     auto_summaries |-> <<>>,
     auto_room_times |-> [r \in Rooms |-> <<>>]]

\* State.auto_room_ready
auto_room_ready(state, room_id, now_ms, rate_limit_ms) ==
    \/ rate_limit_ms <= 0
    \/ state.auto_room_last_spoke[room_id] = None
    \/ now_ms - state.auto_room_last_spoke[room_id] >= rate_limit_ms

\* State._prune_auto_observation_counts
RECURSIVE _prune_auto_observation_counts(_, _, _)
_prune_auto_observation_counts(counts, now_ms, window_ms) ==
    IF window_ms <= 0 \/ counts = <<>> THEN <<>>
    ELSE IF now_ms - Head(counts).first_seen <= window_ms THEN counts
    ELSE _prune_auto_observation_counts(Tail(counts), now_ms, window_ms)

\* State.auto_observation_count, the count it returns
auto_observation_count(state, obs_id, now_ms, window_ms) ==
    LET counts == _prune_auto_observation_counts(state.auto_observation_counts,
                                                 now_ms, window_ms)
        at == {i \in 1..Len(counts) : counts[i].obs_id = obs_id}
    IN  IF at = {} THEN 0 ELSE counts[CHOOSE i \in at : TRUE].count

\* State.record_auto_observation_message
record_auto_observation_message(counts0, obs_id, now_ms, window_ms) ==
    LET counts == _prune_auto_observation_counts(counts0, now_ms, window_ms)
        at == {i \in 1..Len(counts) : counts[i].obs_id = obs_id}
        entry == IF at = {} THEN [obs_id |-> obs_id, first_seen |-> now_ms, count |-> 1]
                 ELSE LET e == counts[CHOOSE i \in at : TRUE]
                      IN  [e EXCEPT !.count = e.count + 1]
    IN  Append(SelectSeq(counts, LAMBDA e : e.obs_id # obs_id), entry)

\* State.auto_room_momentum_ready: the room's auto-commentary messages of the
\* last window_ms, against the maximum count and the minimum interval
auto_room_momentum_ready(state, room_id, now_ms, window_ms, max_msgs, min_interval_ms) ==
    LET times == SelectSeq(state.auto_room_times[room_id],
                           LAMBDA t : now_ms - t <= window_ms)
    IN  IF max_msgs > 0 /\ Len(times) >= max_msgs THEN "momentum_rate"
        ELSE IF min_interval_ms > 0 /\ times # <<>>
                /\ now_ms - times[Len(times)] < min_interval_ms THEN "momentum_interval"
        ELSE "ok"

\* State.auto_summary_seen_before, the hashes it keeps: those seen in the last
\* ttl_ms, and the one asked for when it is new
AutoSummariesKept(summaries, now_ms, ttl_ms) ==
    SelectSeq(summaries, LAMBDA e : ttl_ms > 0 /\ now_ms - e.ts <= ttl_ms)

auto_summary_seen_before(summaries, summary_hash, now_ms, ttl_ms) ==
    \E i \in 1..Len(AutoSummariesKept(summaries, now_ms, ttl_ms)) :
        AutoSummariesKept(summaries, now_ms, ttl_ms)[i].hash = summary_hash

Emit(ok, reason, score, state) ==
    [ok |-> ok, reason |-> reason, score |-> score, state |-> state]

\* should_emit going from the interesting filter straight to the summary dedupe
should_emit_dedupe_first(observation, state, cfg, now_ms) ==
    LET score == compute_interest_score(observation, cfg)
        summary_hash == compute_summary_hash(observation, cfg)
    IN  IF ~_is_interesting(observation, cfg, score)
        THEN Emit(FALSE, "not_interesting", score, state)
        ELSE IF cfg.summary_dedupe.enabled /\ summary_hash # <<>>
                /\ auto_summary_seen_before(state.auto_summaries, summary_hash, now_ms,
                                            cfg.summary_dedupe.ttl_ms)
        THEN Emit(FALSE, "summary_dedupe", score, state)
        ELSE Emit(TRUE, "ok", score, state)

\* should_emit: the decision, the score and the state the gates leave
should_emit(observation, state, cfg, now_ms) ==
    LET score == compute_interest_score(observation, cfg)
        room_id == observation.room_id
        momentum_reason == auto_room_momentum_ready(state, room_id, now_ms,
                               cfg.momentum_window_ms, cfg.momentum_max_msgs,
                               cfg.momentum_min_interval_ms)
        obs_id == observation.id
        counted == cfg.max_messages_per_observation > 0 /\ obs_id # 0
        state4 == IF counted
                  THEN [state EXCEPT !.auto_observation_counts =
                           _prune_auto_observation_counts(@, now_ms, cfg.dedupe_window_ms)]
                  ELSE state
        summary_hash == compute_summary_hash(observation, cfg)
        asked == cfg.summary_dedupe.enabled /\ summary_hash # <<>>
        seen == auto_summary_seen_before(state.auto_summaries, summary_hash, now_ms,
                                         cfg.summary_dedupe.ttl_ms)
        kept == AutoSummariesKept(state.auto_summaries, now_ms, cfg.summary_dedupe.ttl_ms)
        state5 == IF ~asked THEN state4
                  ELSE [state4 EXCEPT !.auto_summaries =
                           IF seen THEN kept
                           ELSE Append(kept, [hash |-> summary_hash, ts |-> now_ms])]
    IN  IF ~_is_interesting(observation, cfg, score)
        THEN Emit(FALSE, "not_interesting", score, state)
        ELSE IF momentum_reason # "ok" THEN Emit(FALSE, momentum_reason, score, state)
        ELSE IF ~auto_room_ready(state, room_id, now_ms, cfg.room_rate_limit_ms)
        THEN Emit(FALSE, "room_rate", score, state)
        ELSE IF counted /\ auto_observation_count(state, obs_id, now_ms, cfg.dedupe_window_ms)
                               >= cfg.max_messages_per_observation
        THEN Emit(FALSE, "max_per_observation", score, state4)
        ELSE IF asked /\ seen THEN Emit(FALSE, "summary_dedupe", score, state5)
        ELSE Emit(TRUE, "ok", score, state5)

\* the publication of an emitted commentary: State.record_auto_publish,
\* State.record_auto_observation_message and the room's momentum
AutoPublished(state, observation, cfg, now_ms) ==
    [state EXCEPT
        !.auto_room_last_spoke[observation.room_id] = now_ms,
        !.auto_observation_counts =
            IF observation.id = 0 THEN @
            ELSE record_auto_observation_message(@, observation.id, now_ms,
                                                 cfg.dedupe_window_ms),
        !.auto_room_times[observation.room_id] = Append(@, now_ms)]

Observation(id, summary, hype_level, tags) ==
    [id |-> id, room_id |-> "room:demo", summary |-> summary, hype_level |-> hype_level,
     tags |-> tags, entities |-> <<>>]

Observations ==
    {Observation(1, <<"W", "!">>, 9, <<>>), Observation(1, <<"!", "s">>, 9, <<>>),
     Observation(2, <<"w">>, 9, <<>>), Observation(2, <<"!", "s">>, 9, <<>>),
     Observation(1, <<"w">>, 0, <<>>), Observation(0, <<"w", "!">>, 0, <<"goal", "">>)}

\* the momentum settings and the summary_dedupe sections of the configs
AutoMomentum == {<<1, 0>>, <<3, 3000>>, <<3, 0>>}
AutoDedupe == {<<FALSE, TRUE>>, <<TRUE, TRUE>>, <<TRUE, FALSE>>}

AutoConfigs ==
    {[hype_threshold |-> 7, trigger_tags |-> {"goal"}, trigger_on_entities |-> FALSE,
      interest_weights |-> [hype |-> 6, mentions |-> 2, entities |-> 3, tag_hype |-> 2],
      momentum_window_ms |-> 10000, momentum_max_msgs |-> momentum[1],
      momentum_min_interval_ms |-> momentum[2], room_rate_limit_ms |-> rate_limit,
      max_messages_per_observation |-> max_per_obs, dedupe_window_ms |-> 10000,
      summary_dedupe |-> [enabled |-> dedupe[1], normalize |-> dedupe[2],
                          ttl_ms |-> 5000]] :
        momentum \in AutoMomentum, rate_limit \in {0, 2000}, max_per_obs \in {0, 1},
        dedupe \in AutoDedupe}

\* one observation arrives: should_emit, and the publication when it says so
ShouldEmit ==
    /\ svc = "emitter"
    /\ Len(lib_out.log) < MaxObs
    /\ \E observation \in Observations :
          LET out == should_emit(observation, lib_out.state, lib_in, lib_out.now_ms)
          IN  lib_out' = [lib_out EXCEPT
                  !.state = IF out.ok
                            THEN AutoPublished(out.state, observation, lib_in, lib_out.now_ms)
                            ELSE out.state,
                  !.log = Append(@, [observation |-> observation, now_ms |-> lib_out.now_ms,
                                     before |-> lib_out.state, ok |-> out.ok,
                                     reason |-> out.reason])]
    /\ UNCHANGED <<svc, lib_pc, lib_in, gvars, wsvars, pwvars, spvars>>

\* time passes between two observations
AutoTick ==
    /\ svc = "emitter"
    /\ Len(lib_out.log) \in 1..(MaxObs - 1)
    /\ lib_out.ticks < MaxAutoTicks
    /\ \E step \in ClockSteps :
          lib_out' = [lib_out EXCEPT !.now_ms = @ + step, !.ticks = @ + 1]
    /\ UNCHANGED <<svc, lib_pc, lib_in, gvars, wsvars, pwvars, spvars>>

InitEmitter ==
    /\ svc = "emitter"
    /\ lib_pc = "run"
    /\ lib_in \in AutoConfigs
    /\ lib_out = [state |-> NoAutoState, now_ms |-> StartMs, ticks |-> 0, log |-> <<>>]
    /\ NoGateway
    /\ NoWorker
    /\ NoPerceiver

NextEmitter == ShouldEmit \/ AutoTick

SpecEmitter == InitEmitter /\ [][NextEmitter]_vars


----------------------------------------------------------------------------
(* packages/llm_runtime: hash_utils.py, prompt_loader.py and the             *)
(* initialisation of PromptRenderer.  A prompt file is a sequence of         *)
(* characters: "r" is CR, "n" is LF, "a" any other character.                *)

MaxFileLen == 3

\* raw.replace("\r\n", "\n").replace("\r", "\n")
RECURSIVE NormalizeNewlines(_)
NormalizeNewlines(raw) ==
    IF raw = <<>> THEN <<>>
    ELSE IF Head(raw) = "r"
         THEN <<"n">> \o NormalizeNewlines(IF Len(raw) > 1 /\ raw[2] = "n"
                                           THEN Tail(Tail(raw)) ELSE Tail(raw))
    ELSE <<Head(raw)>> \o NormalizeNewlines(Tail(raw))

\* str.rstrip("\n")
RECURSIVE RstripNewlines(_)
RstripNewlines(text) ==
    IF text # <<>> /\ text[Len(text)] = "n"
    THEN RstripNewlines(SubSeq(text, 1, Len(text) - 1))
    ELSE text

\* canonical_prompt_text
canonical_prompt_text(raw) == RstripNewlines(NormalizeNewlines(raw)) \o <<"n">>

\* canonical_prompt_sha256
canonical_prompt_sha256(raw) == Sha256(canonical_prompt_text(raw))

\* prompt_loader._sha256_file: the digest of the file's bytes
_sha256_file(raw) == Sha256(raw)

\* prompt_loader.verify_sha256, for one prompt of the manifest
verify_sha256(sha256, raw) ==
    IF _sha256_file(raw) # sha256 THEN "ValueError" ELSE "verified"

PromptFiles == SeqsUpTo({"a", "r", "n"}, MaxFileLen)

\* PromptRenderer.__init__ over one of two checkouts of the prompt file
PromptRendererInit ==
    /\ svc = "prompts"
    /\ lib_pc \in {"first", "second"}
    /\ LET raw == IF lib_pc = "first" THEN lib_in.first ELSE lib_in.second
           verified == verify_sha256(lib_in.sha256, raw)
       IN  lib_out' = Append(lib_out,
                             IF verified = "ValueError" THEN [error |-> "ValueError", prompt |-> <<>>]
                             ELSE [error |-> "", prompt |-> canonical_prompt_text(raw)])
    /\ lib_pc' = IF lib_pc = "first" THEN "second" ELSE "done"
    /\ UNCHANGED <<svc, lib_in, gvars, wsvars, pwvars, spvars>>

\* the manifest records the digest of one of the two checkouts, as the
\* validation script or as the loader computes it
InitPrompts ==
    /\ svc = "prompts"
    /\ lib_pc = "first"
    /\ \E first \in PromptFiles, second \in PromptFiles :
          \E sha256 \in {canonical_prompt_sha256(first), _sha256_file(first)} :
             lib_in = [first |-> first, second |-> second, sha256 |-> sha256]
    /\ lib_out = <<>>
    /\ NoGateway
    /\ NoWorker
    /\ NoPerceiver

SpecPrompts == InitPrompts /\ [][PromptRendererInit]_vars


----------------------------------------------------------------------------
(* chat_gateway/safety.py: apply_moderation over moderation configs whose    *)
(* patterns may share a kind *)

Pattern(kind, regex, replacement) ==
    [kind |-> kind, regex |-> regex, replacement |-> replacement]

ModerationConfigs ==
    {<<>>,
     ModerationPatterns,
     <<Pattern("pii", "p", <<"x">>), Pattern("pii", "q", <<"y">>)>>,
     <<Pattern("phone", "p", <<"x">>), Pattern("email", "q", <<>>),
       Pattern("phone", "e", <<"x">>)>>}

ApplyModeration ==
    /\ svc = "moderation"
    /\ lib_pc = "call"
    /\ lib_out' = ModerationWith(lib_in.patterns, lib_in.content)
    /\ lib_pc' = "done"
    /\ UNCHANGED <<svc, lib_in, gvars, wsvars, pwvars, spvars>>

InitModeration ==
    /\ svc = "moderation"
    /\ lib_pc = "call"
    /\ \E patterns \in ModerationConfigs,
          content \in SeqsUpTo({"p", "q", "e", "a"}, content_max_length) :
          lib_in = [patterns |-> patterns, content |-> content]
    /\ lib_out = <<>>
    /\ NoGateway
    /\ NoWorker
    /\ NoPerceiver

SpecModeration == InitModeration /\ [][ApplyModeration]_vars

----------------------------------------------------------------------------
(* persona_workers/policy.py: the probabilistic gate of should_speak, for a  *)
(* human message past the hard gates and without a marker; probabilities in  *)
(* 1/1000 *)

MaxRate == 3

Policies ==
    {[p_base |-> base, p_mention_bonus |-> p_mention_bonus, p_hype_bonus |-> hype_bonus,
      p_rate_penalty_per_msg |-> penalty] :
        base \in {0, p_base, 700}, hype_bonus \in {p_hype_bonus, 400},
        penalty \in {p_rate_penalty_per_msg, 300}}

\* should_speak from the hash score on: h_value, p_threshold and the decision
ProbabilisticGate ==
    /\ svc = "policy"
    /\ lib_pc = "call"
    /\ LET h_value == IF lib_in.message_id # 0
                      THEN deterministic_hash_score(lib_in.message_id, lib_in.persona_id)
                      ELSE p_one
           p_threshold == ThresholdWith(lib_in.policy, lib_in.mention_detected,
                                        lib_in.hype_detected, lib_in.rate_10s)
       IN  lib_out' = [speak |-> h_value < p_threshold,
                       reason |-> IF h_value < p_threshold THEN "p_pass" ELSE "p_gate",
                       p_used |-> p_threshold, h_value |-> h_value]
    /\ lib_pc' = "done"
    /\ UNCHANGED <<svc, lib_in, gvars, wsvars, pwvars, spvars>>

InitPolicy ==
    /\ svc = "policy"
    /\ lib_pc = "call"
    /\ \E policy \in Policies, message_id \in 0..MaxIds, persona_id \in PersonaIds,
          mention_detected \in BOOLEAN, hype_detected \in BOOLEAN, rate \in 0..MaxRate :
          lib_in = [policy |-> policy, message_id |-> message_id, persona_id |-> persona_id,
                    mention_detected |-> mention_detected, hype_detected |-> hype_detected,
                    rate_10s |-> rate]
    /\ lib_out = <<>>
    /\ NoGateway
    /\ NoWorker
    /\ NoPerceiver

SpecPolicy == InitPolicy /\ [][ProbabilisticGate]_vars

----------------------------------------------------------------------------
(* persona_workers/state.py: RoomState.record_event and RoomState.rate_10s   *)
(* on one room, called with any message timestamps *)

MaxRoomCalls == 4
MaxRoomTicks == 2

\* the message timestamps a caller passes, relative to the clock: a delayed
\* message, recent ones, and one stamped in the future
EventOffsets == {-11000, -5000, 0, 11000}

\* _handle_message: self.state.record_event(room_id, ts_ms, ...)
RoomRecordEvent ==
    /\ svc = "room_rate"
    /\ lib_out.calls < MaxRoomCalls
    /\ \E offset \in EventOffsets :
          lib_out' = [lib_out EXCEPT
                         !.event_times = record_event(@, lib_out.now_ms + offset),
                         !.recorded = Append(@, lib_out.now_ms + offset),
                         !.calls = @ + 1,
                         !.last = "record_event"]
    /\ UNCHANGED <<svc, lib_pc, lib_in, gvars, wsvars, pwvars, spvars>>

\* RoomState.rate_10s(now_ms)
RoomRate10s ==
    /\ svc = "room_rate"
    /\ lib_out.calls < MaxRoomCalls
    /\ lib_out' = [lib_out EXCEPT
                      !.event_times = prune_events(@, lib_out.now_ms),
                      !.rate = rate_10s(lib_out.event_times, lib_out.now_ms),
                      !.calls = @ + 1,
                      !.last = "rate_10s"]
    /\ UNCHANGED <<svc, lib_pc, lib_in, gvars, wsvars, pwvars, spvars>>

\* time passes between two calls
RoomTick ==
    /\ svc = "room_rate"
    /\ lib_out.ticks < MaxRoomTicks
    /\ lib_out' = [lib_out EXCEPT !.now_ms = @ + 6000, !.ticks = @ + 1, !.last = "tick"]
    /\ UNCHANGED <<svc, lib_pc, lib_in, gvars, wsvars, pwvars, spvars>>

InitRoomRate ==
    /\ svc = "room_rate"
    /\ lib_pc = "run"
    /\ lib_in = <<>>
    /\ lib_out = [event_times |-> <<>>, recorded |-> <<>>, now_ms |-> StartMs, rate |-> 0,
                  calls |-> 0, ticks |-> 0, last |-> ""]
    /\ NoGateway
    /\ NoWorker
    /\ NoPerceiver

NextRoomRate == RoomRecordEvent \/ RoomRate10s \/ RoomTick

SpecRoomRate == InitRoomRate /\ [][NextRoomRate]_vars


\* ---- State's per-observation counter (persona_workers/src/state.py) ----

MaxCounterCalls == 4
MaxCounterTicks == 3

\* observation ids the counter is called with
CounterObsIds == {"obs_a", "obs_b"}

\* the start of the window a message of obs_id falls in: the first message
\* recorded for it, or the message recorded once that one was out of the window
WindowStart(starts, obs_id, now_ms, window_ms) ==
    IF starts[obs_id] = None \/ now_ms - starts[obs_id] > window_ms THEN now_ms
    ELSE starts[obs_id]

\* State.record_auto_observation_message(obs_id, now_ms, window_ms)
RecordAutoObservationMessage ==
    /\ svc = "auto_counts"
    /\ lib_out.calls < MaxCounterCalls
    /\ \E obs_id \in CounterObsIds :
         LET counts == record_auto_observation_message(lib_out.auto_observation_counts,
                                                       obs_id, lib_out.now_ms,
                                                       lib_in.window_ms)
         IN  lib_out' = [lib_out EXCEPT
                            !.auto_observation_counts = counts,
                            !.starts[obs_id] = WindowStart(lib_out.starts, obs_id,
                                                           lib_out.now_ms, lib_in.window_ms),
                            !.calls = @ + 1,
                            !.last = [op |-> "record", obs_id |-> obs_id,
                                      result |-> counts[Len(counts)].count]]
    /\ UNCHANGED <<svc, lib_pc, lib_in, gvars, wsvars, pwvars, spvars>>

\* State.auto_observation_count(obs_id, now_ms, window_ms)
AutoObservationCount ==
    /\ svc = "auto_counts"
    /\ lib_out.calls < MaxCounterCalls
    /\ \E obs_id \in CounterObsIds :
         lib_out' = [lib_out EXCEPT
                        !.auto_observation_counts =
                            _prune_auto_observation_counts(@, lib_out.now_ms,
                                                           lib_in.window_ms),
                        !.calls = @ + 1,
                        !.last = [op |-> "count", obs_id |-> obs_id,
                                  result |-> auto_observation_count(lib_out, obs_id,
                                                                    lib_out.now_ms,
                                                                    lib_in.window_ms)]]
    /\ UNCHANGED <<svc, lib_pc, lib_in, gvars, wsvars, pwvars, spvars>>

\* time passes between two calls: now_ms does not decrease
CounterTick ==
    /\ svc = "auto_counts"
    /\ lib_out.ticks < MaxCounterTicks
    /\ lib_out' = [lib_out EXCEPT !.now_ms = @ + 4000, !.ticks = @ + 1,
                                  !.last = [op |-> "tick", obs_id |-> "", result |-> 0]]
    /\ UNCHANGED <<svc, lib_pc, lib_in, gvars, wsvars, pwvars, spvars>>

InitAutoCounts ==
    /\ svc = "auto_counts"
    /\ lib_pc = "run"
    /\ lib_in \in {[window_ms |-> w] : w \in {0, 10000}}
    /\ lib_out = [auto_observation_counts |-> <<>>,
                  starts |-> [obs_id \in CounterObsIds |-> None],
                  now_ms |-> StartMs, calls |-> 0, ticks |-> 0,
                  last |-> [op |-> "none", obs_id |-> "", result |-> 0]]
    /\ NoGateway
    /\ NoWorker
    /\ NoPerceiver

NextAutoCounts == RecordAutoObservationMessage \/ AutoObservationCount \/ CounterTick

SpecAutoCounts == InitAutoCounts /\ [][NextAutoCounts]_vars


\* ---- the gateway under a moderation config with a long replacement ----

\* ingest entries: content that is redacted to a longer text, content that is
\* truncated and allowed, content the redaction empties, content that is dropped
RedactEntries ==
    { [kind |-> "msg", msg |-> HumanMsg(1, "room:demo", <<"a", "n", "p">>)],
      [kind |-> "msg", msg |-> HumanMsg(2, "room:demo", <<"a", "n", "b", "c">>)],
      [kind |-> "msg", msg |-> HumanMsg(3, "room:demo", <<"q">>)],
      [kind |-> "msg", msg |-> HumanMsg(4, "room:demo", <<"n", "s">>)] }

InitRedact ==
    /\ svc = "gateway_redact"
    /\ NoCall
    /\ \E entries \in [1..MaxIngest -> RedactEntries] : InitBus(entries, 0)
    /\ InitWs(QueueSize, {})
    /\ NoWorker
    /\ NoPerceiver

SpecRedact == InitRedact /\ [][NextGateway]_vars


\* ---- the perceiver while producers append to its streams ----

MaxLateFrames == 2
MaxLateSegments == 1

\* what the producers append: a frame with its file, and segments inside and
\* outside the join window of the frames
LateFrames ==
    {Frame(1, 10000, "present", "d1", Hex("d1", "lower")),
     Frame(2, 50000, "present", "d2", Hex("d2", "lower"))}

LateSegments == {Segment(1, 0), Segment(2, 30000)}

\* the entry ids the streams may come to hold
LateKeys ==
    [frames |-> [i \in 1..MaxLateFrames |-> NoFrame],
     transcripts |-> [i \in 1..MaxLateSegments |-> NoSeg]]

\* a capture producer appends a frame to stream:frames;
\* the perceiver sees the streams in its reads only, so the appends are taken
\* while it waits in one
ProduceFrame ==
    /\ svc = "perceiver_late"
    /\ sp_pc = "read"
    /\ Len(frames_in) < MaxLateFrames
    /\ \E entry \in LateFrames : frames_in' = Append(frames_in, entry)
    /\ UNCHANGED <<svc, libvars, gvars, wsvars, pwvars>>
    /\ UNCHANGED <<sp_losses, transcripts_in, sp_pc, sp_client, sp_group_ok, sp_backoff,
                   sp_cursor, sp_batch, sp_obs, sp_acks, sp_acked, sp_handled, sp_faults,
                   watermark_ms, transcripts, llm_log, observations, processed_frames,
                   processed_transcripts, emitted_observations, llm_calls, llm_failures,
                   schema_failures, sha_mismatch, file_missing, redis_failures>>

\* a transcription producer appends a segment to stream:transcripts
ProduceSegment ==
    /\ svc = "perceiver_late"
    /\ sp_pc = "read"
    /\ Len(transcripts_in) < MaxLateSegments
    /\ \E entry \in LateSegments : transcripts_in' = Append(transcripts_in, entry)
    /\ UNCHANGED <<svc, libvars, gvars, wsvars, pwvars>>
    /\ UNCHANGED <<sp_losses, frames_in, sp_pc, sp_client, sp_group_ok, sp_backoff,
                   sp_cursor, sp_batch, sp_obs, sp_acks, sp_acked, sp_handled, sp_faults,
                   watermark_ms, transcripts, llm_log, observations, processed_frames,
                   processed_transcripts, emitted_observations, llm_calls, llm_failures,
                   schema_failures, sha_mismatch, file_missing, redis_failures>>

InitLate ==
    /\ svc = "perceiver_late"
    /\ NoCall
    /\ InitSpFrom(LateKeys, <<>>, <<>>, "run")
    /\ NoGateway
    /\ NoWorker

NextLate == NextPerceiver \/ ProduceFrame \/ ProduceSegment

SpecLate == InitLate /\ [][NextLate]_vars


SpecGateway == InitGateway /\ [][NextGateway]_vars

SpecFanout == InitFanout /\ [][NextFanout]_vars

SpecOverload == InitOverload /\ [][NextOverload]_vars

SpecHandshake == InitHandshake /\ [][NextHandshake]_vars

SpecShutdown == InitShutdown /\ [][NextShutdown]_vars

SpecFifo == InitFifo /\ [][NextFanout]_vars

SpecWorker == InitWorker /\ [][NextWorker]_vars

SpecDedupe == InitDedupe /\ [][NextDedupe]_vars

SpecBurst == InitBurst /\ [][NextBurst]_vars

SpecOutage == InitOutage /\ [][NextOutage]_vars

SpecLoop == InitLoop /\ [][NextLoop]_vars

\* each service runs its own event loop, and an append to a stream is seen by
\* the next blocking read of its consumer group
SpecLoopLive ==
    /\ SpecLoop
    /\ WF_vars(LoopGateway)
    /\ WF_vars(LoopWorker)
    /\ WF_vars(LoopStreams)

SpecPerceiver == InitPerceiver /\ [][NextPerceiver]_vars

Spec == Init /\ [][Next]_vars

----------------------------------------------------------------------------
(* Claims *)

Handled(i) == i <= g_cursor /\ i \notin SeqToSet(g_batch)

\* the worker has finished with firehose entry i
PwDone(i) == i <= pw_cursor /\ i \notin SeqToSet(pw_batch) /\ i \notin SeqToSet(pw_nodata)

\* C1: in the gateway and in the persona worker an entry delivered by a
\* consumer-group read has had exactly one ack attempt once the service has
\* finished with it, whatever the entry carried and whether or not a broker call
\* failed on the way, and none before; no entry is handled twice
C1_OneAckAttemptPerEntry ==
    /\ svc = "gateway" =>
          \A i \in 1..Len(ingest) : g_acks[i] = IF Handled(i) THEN 1 ELSE 0
    /\ svc = "worker" =>
          \A i \in 1..Len(firehose_in) :
              /\ pw_acks[i] = IF PwDone(i) THEN 1 ELSE 0
              /\ pw_handled[i] <= 1

\* the worker finished a feed that held malformed JSON and an entry without data;
\* the ack attempt of one entry failed and the entry after it was handled and
\* acked all the same
C1_Witness ==
    /\ svc = "worker"
    /\ \A i \in 1..Len(firehose_in) : PwDone(i)
    /\ \E i \in 1..Len(firehose_in) : firehose_in[i].kind = "badjson"
    /\ \E i \in 1..Len(firehose_in) : firehose_in[i].kind = "nodata"
    /\ \E i \in 1..Len(firehose_in) :
          /\ i \notin pw_acked
          /\ i < Len(firehose_in)
          /\ (i + 1) \in pw_acked

\* the replies appended for the room of reply i in the 10 000 ms up to reply i
RepliesInWindow(i) ==
    {j \in 1..Len(ingest_out) :
        /\ ingest_out[j].room_id = ingest_out[i].room_id
        /\ ingest_out[j].at <= ingest_out[i].at
        /\ ingest_out[i].at - ingest_out[j].at <= bot_budget_window_ms}

\* C2: for every room, any window of 10 000 ms (both ends included) holds at most
\* max_bot_msgs_per_10s replies appended to ingest by the worker, all personas
\* together; every reply is of origin bot
C2_RoomBudget ==
    \A i \in 1..Len(ingest_out) :
        /\ Cardinality(RepliesInWindow(i)) <= max_bot_msgs_per_10s
        /\ ingest_out[i].origin = "bot"

\* a persona was refused with `budget` while the room had its full budget of
\* replies in the window, made by more than one persona
C2_Witness ==
    /\ pw_decision.reason = "budget"
    /\ Len(ingest_out) >= max_bot_msgs_per_10s
    /\ Cardinality({j \in 1..Len(ingest_out) :
                      /\ ingest_out[j].room_id = pw_decision.room_id
                      /\ pw_decision.now_ms - ingest_out[j].at <= bot_budget_window_ms})
          = max_bot_msgs_per_10s
    /\ \E j, k \in 1..Len(ingest_out) : ingest_out[j].persona_id # ingest_out[k].persona_id

\* max(soft_cooldown_ms, hard_cooldown_ms if set), from the room config
RequiredCooldown ==
    IF /\ room_cfg.hard_cooldown_ms # None
       /\ room_cfg.hard_cooldown_ms > room_cfg.soft_cooldown_ms
    THEN room_cfg.hard_cooldown_ms
    ELSE room_cfg.soft_cooldown_ms

\* the persona of the last decision spoke less than the cooldown before it
DecidedInCooldown ==
    /\ pw_decision.entry > 0
    /\ pw_decision.last_spoke # None
    /\ pw_decision.now_ms - pw_decision.last_spoke < RequiredCooldown

\* the message of the last decision passes the gates that come before the cooldown
DecidedPastEarlyGates ==
    /\ pw_decision.origin # "bot"
    /\ pw_decision.now_ms - pw_decision.ts_ms <= max_react_age_ms
    /\ room_cfg.room_id = "" \/ pw_decision.room_id = room_cfg.room_id

\* C3 as stated: a persona that spoke less than the cooldown ago gets the decision
\* `cooldown`, for any message and any room
C3_CooldownDecisionAnyMessage ==
    DecidedInCooldown => pw_decision.reason = "cooldown"

\* C3 amended: two successive appended replies of a persona are at least the
\* cooldown apart; a persona that spoke less than the cooldown ago publishes
\* nothing, and its decision is `cooldown` for every message that passes the
\* bot_origin, too_old and wrong_room gates (forced-marker and mention messages
\* included), and the reason of the earlier gate that rejects it otherwise
C3_CooldownBetweenPublishes ==
    /\ \A i, j \in 1..Len(ingest_out) :
          (i < j /\ ingest_out[i].persona_id = ingest_out[j].persona_id)
             => ingest_out[j].at - ingest_out[i].at >= RequiredCooldown
    /\ DecidedInCooldown =>
          /\ pw_decision.reason \in {"bot_origin", "too_old", "wrong_room", "cooldown"}
          /\ DecidedPastEarlyGates => pw_decision.reason = "cooldown"
          /\ pw_pc \notin {"publish", "record"}
    /\ pw_pc \in {"publish", "record"} => Speaks(pw_decision.reason)

\* a persona that has published twice is refused with `cooldown` on a
\* forced-marker message
C3_Witness ==
    /\ pw_decision.reason = "cooldown"
    /\ pw_decision.marker
    /\ \E i, j \in 1..Len(ingest_out) :
          /\ i < j
          /\ ingest_out[i].persona_id = pw_decision.persona_id
          /\ ingest_out[j].persona_id = pw_decision.persona_id

Emitted(i) == \E k \in 1..Len(firehose) : firehose[k].entry = i

\* C4: the gateway never acks an ingest entry that carries a schema-valid message
\* with non-empty sanitized content unless that message was appended to firehose
C4_AckOnlyAfterFirehose ==
    \A i \in g_acked :
        (ingest[i].kind = "msg" /\ process(ingest[i].msg) # NoMsg) => Emitted(i)

\* C5: each dispatched item is sent to websockets that were members of its room
\* when it was dequeued and to no other, whatever happened to the room since;
\* once the dispatch is over every such member had its send, also when the send
\* to another member raised
C5_FanOutAtDequeue ==
    \A i \in 1..Len(dispatch_log) :
        LET d == dispatch_log[i]
            members == RoomGet(d.rooms, d.room_id)
        IN  /\ d.sent \subseteq members
            /\ d.ok \subseteq d.sent
            /\ d.done => d.sent = members

\* a later item of the same room reached a subscriber that joined after an earlier
\* item was dequeued (and never got that one), while the send to another
\* subscriber raised
C5_Witness ==
    \E i, j \in 1..Len(dispatch_log) :
        LET a == dispatch_log[i]
            b == dispatch_log[j]
        IN  /\ i < j
            /\ a.room_id = b.room_id
            /\ a.done /\ b.done
            /\ a.sent # {}
            /\ \E ws \in b.ok : ws \notin RoomGet(a.rooms, a.room_id) /\ ws \notin a.sent
            /\ b.sent \ b.ok # {}

\* C6: a call of enqueue_broadcast on a queue holding max_queue_size items returns
\* false, leaves the queue as it was and counts one dropped message; any other call
\* appends the item, returns true and counts one broadcast; the queue never holds
\* more than max_queue_size items
C6_EnqueueNonBlocking ==
    /\ Len(broadcast_queue) <= max_queue_size
    /\ g_last_enq.call > 0 =>
          IF g_last_enq.full
          THEN /\ ~g_last_enq.sent
               /\ g_last_enq.after = g_last_enq.before
               /\ g_last_enq.dropped = 1 /\ g_last_enq.broadcast = 0
          ELSE /\ g_last_enq.sent
               /\ Len(g_last_enq.after) = Len(g_last_enq.before) + 1
               /\ SubSeq(g_last_enq.after, 1, Len(g_last_enq.before)) = g_last_enq.before
               /\ g_last_enq.dropped = 0 /\ g_last_enq.broadcast = 1

\* the handler met a full queue
C6_Witness == g_last_enq.call > 0 /\ g_last_enq.full /\ messages_dropped > 0

BurstOver == n_enq = OverloadBurst

\* C7 as stated: after the burst exactly the first OverloadQueueSize messages were
\* accepted, and every later attempt returned false
C7_ExactlyQueueSizeAccepted ==
    BurstOver =>
        /\ n_accepted = OverloadQueueSize
        /\ enq_rejected = (OverloadQueueSize + 1)..OverloadBurst

\* C7 amended: after the burst the accepted messages are the first
\* OverloadQueueSize and at most one more (the attempt that follows the worker's
\* taking the first message out of the queue); every other attempt returned false;
\* the worker hands only the first message to the subscriber and never finishes
\* that dispatch, so the other accepted messages stay queued
C7_OverloadAccepted ==
    /\ BurstOver =>
          /\ n_accepted \in {OverloadQueueSize, OverloadQueueSize + 1}
          /\ enq_rejected \subseteq (OverloadQueueSize + 1)..OverloadBurst
          /\ Cardinality(enq_rejected) = OverloadBurst - n_accepted
          /\ n_accepted = OverloadQueueSize + 1 => Len(dispatch_log) = 1
    /\ Len(dispatch_log) <= 1
    /\ \A i \in 1..Len(dispatch_log) :
          dispatch_log[i].seq = 1 /\ dispatch_log[i].ok = {} /\ ~dispatch_log[i].done
    /\ Len(broadcast_queue) + Len(dispatch_log) = n_accepted

\* the burst is over, one message more than the queue holds was accepted
C7_Witness ==
    BurstOver /\ n_accepted = OverloadQueueSize + 1 /\ Len(broadcast_queue) = OverloadQueueSize

\* the perceiver has finished with the entry
SpDone(key) ==
    key[2] <= sp_cursor[key[1]] /\ key \notin SeqToSet(sp_batch)

\* a frame whose file is not on disk
MissingFile(i) ==
    /\ frames_in[i].kind = "frame"
    /\ ~frames_in[i].frame.path_blank
    /\ frames_in[i].frame.file = "missing"

\* a frame whose file is on disk and hashes to another SHA-256 than frame.sha256
ShaDiffers(i) ==
    /\ frames_in[i].kind = "frame"
    /\ ~frames_in[i].frame.path_blank
    /\ frames_in[i].frame.file = "present"
    /\ frames_in[i].frame.file_digest # frames_in[i].frame.sha256.digest

FrameStarted(i) == sp_handled[<<FramesKey, i>>] > 0

\* C8: a frame whose file hashes to another SHA-256 than frame.sha256, or whose
\* file is missing, never has an LLM call nor an observation; sha_mismatch
\* (file_missing) counts exactly the frames of the kind handled so far, no entry
\* is handled twice, and a finished entry has had its one ack attempt
C8_NoObservationOnShaMismatch ==
    /\ \A i \in 1..Len(frames_in) :
          (ShaDiffers(i) \/ MissingFile(i)) =>
              /\ i \notin SeqToSet(llm_log)
              /\ \A k \in 1..Len(observations) : observations[k].frame # i
              /\ SpDone(<<FramesKey, i>>) => sp_acks[<<FramesKey, i>>] = 1
    /\ sha_mismatch = Cardinality({i \in 1..Len(frames_in) : ShaDiffers(i) /\ FrameStarted(i)})
    /\ file_missing = Cardinality({i \in 1..Len(frames_in) : MissingFile(i) /\ FrameStarted(i)})
    /\ \A key \in DOMAIN sp_handled : sp_handled[key] <= 1

\* all frames of a feed are finished: one was emitted, one had a differing hash,
\* one a missing file, and both of these were acked
C8_Witness ==
    /\ sp_pc = "read"
    /\ emitted_observations = 1
    /\ \E i, j \in 1..Len(frames_in) :
          /\ ShaDiffers(i) /\ SpDone(<<FramesKey, i>>) /\ <<FramesKey, i>> \in sp_acked
          /\ MissingFile(j) /\ SpDone(<<FramesKey, j>>) /\ <<FramesKey, j>> \in sp_acked
    /\ sha_mismatch = 1
    /\ file_missing = 1

\* C9: no service produces a second output for an input entry that carries the id
\* of an entry it has already processed: no two firehose appends of one message
\* id, no two observations of one frame id, no bot reply to a second entry of one
\* message id
C9_DedupeInEveryService ==
    /\ \A i, j \in 1..Len(firehose) :
          i # j => firehose[i].msg.id # firehose[j].msg.id
    /\ \A i, j \in 1..Len(observations) :
          i # j => observations[i].frame_id # observations[j].frame_id
    /\ \A i, j \in 1..Len(ingest_out) :
          firehose_in[ingest_out[i].entry].msg.id = firehose_in[ingest_out[j].entry].msg.id
             => ingest_out[i].entry = ingest_out[j].entry

\* C10: after every call of seen_before the cache holds at most dedupe_size ids,
\* each once; the call returned true exactly when the id was in the cache, and
\* then left the cache as it was; otherwise it returned false and the id is in
\* the cache, as its newest entry
C10_DedupeCacheBounded ==
    /\ Len(dedupe_cache) <= dedupe_size
    /\ Cardinality(SeqToSet(dedupe_cache)) = Len(dedupe_cache)
    /\ seen_call.n > 0 =>
          /\ seen_call.after = dedupe_cache
          /\ seen_call.ret = (seen_call.id \in SeqToSet(seen_call.before))
          /\ seen_call.ret => seen_call.after = seen_call.before
          /\ ~seen_call.ret =>
                /\ seen_call.after # <<>>
                /\ seen_call.after[Len(seen_call.after)] = seen_call.id
                /\ SeqToSet(seen_call.after) \subseteq
                      SeqToSet(seen_call.before) \cup {seen_call.id}

\* seen_before inserted a new id into a full cache, and the oldest id went
C10_Witness ==
    /\ seen_call.n > 0
    /\ ~seen_call.ret
    /\ Len(seen_call.before) = dedupe_size
    /\ Len(seen_call.after) = dedupe_size
    /\ Head(seen_call.before) \notin SeqToSet(seen_call.after)

\* the sanitized content is not empty, a moderation pattern matches it, and the
\* replacements leave nothing
RedactsToEmpty(msg) ==
    LET sanitized == sanitize_content(msg.content)
        moderation == apply_moderation(sanitized)
    IN  /\ sanitized # <<>>
        /\ moderation.action = "redact"
        /\ moderation.content = <<>>

\* C11: a schema-valid message whose content is empty after the moderation
\* replacements is dropped by the gateway: enqueue_broadcast is not called for it
\* and it is not appended to firehose; and no firehose message with moderation
\* action redact carries the content it had before the replacements
C11_DropWhenRedactionEmpties ==
    /\ g_pc = "xadd" => ~RedactsToEmpty(ingest[Head(g_batch)].msg)
    /\ \A k \in 1..Len(firehose) :
          LET original == ingest[firehose[k].entry].msg
          IN  /\ ~RedactsToEmpty(original)
              /\ firehose[k].msg.action = "redact" =>
                    firehose[k].msg.content # sanitize_content(original.content)

\* the room of the message already has its budget of bot publishes in the
\* 10 000 ms up to now
BudgetSpent(room_id) ==
    Cardinality({k \in 1..Len(bot_publish_times[room_id]) :
                    now - bot_publish_times[room_id][k] <= bot_budget_window_ms})
       >= room_cfg.max_bot_msgs_per_10s

\* C12: every decision of should_speak is the reason of the first hard gate that
\* fails, the gates taken in the order bot_origin, too_old, wrong_room, cooldown,
\* budget; a message that passes the five and holds an E2E marker token gets
\* e2e_forced, one without marker the outcome of the probabilistic gate
C12_HardGatesInOrder ==
    [][ (pw_pc = "decide" /\ ticks' = ticks) =>
          LET msg == firehose_in[Head(pw_batch)].msg
              persona_id == Head(pw_personas)
              reason == pw_decision'.reason
          IN  IF msg.origin = "bot" THEN reason = "bot_origin"
              ELSE IF now - msg.ts_ms > max_react_age_ms THEN reason = "too_old"
              ELSE IF room_cfg.room_id # "" /\ msg.room_id # room_cfg.room_id
                   THEN reason = "wrong_room"
              ELSE IF /\ last_spoke_at_ms[persona_id] # None
                      /\ now - last_spoke_at_ms[persona_id] < RequiredCooldown
                   THEN reason = "cooldown"
              ELSE IF BudgetSpent(msg.room_id) THEN reason = "budget"
              ELSE IF msg.marker THEN reason = "e2e_forced"
              ELSE reason \in {"p_pass", "p_gate"} ]_vars

\* a marker message of another room was refused with wrong_room while the persona
\* was in its cooldown, after a marker message that passed the five gates was
\* answered with e2e_forced
C12_Witness ==
    /\ pw_decision.reason = "wrong_room"
    /\ pw_decision.marker
    /\ pw_decision.last_spoke # None
    /\ pw_decision.now_ms - pw_decision.last_spoke < soft_cooldown_ms
    /\ \E j \in 1..Len(ingest_out) : ingest_out[j].persona_id = pw_decision.persona_id

\* the burst was handled so far as the scenario lays it out: a reply was appended
\* for each of the first BurstBudget messages the worker has finished with, and
\* every decision for a later message is `budget`
BurstOutcome ==
    /\ \A k \in 1..BurstBudget :
          PwDone(k) => \E j \in 1..Len(ingest_out) : ingest_out[j].entry = k
    /\ \A j \in 1..Len(ingest_out) : ingest_out[j].entry <= BurstBudget
    /\ pw_decision.entry > BurstBudget => pw_decision.reason = "budget"

IsSuffix(a, b) == \E k \in 0..Len(b) : a = SubSeq(b, k + 1, Len(b))

\* a step that leaves the bookkeeping of publishes alone: last_spoke_at_ms and
\* messages_published of every persona, messages_published of the stats, and
\* bot_publish_times of every room but for the pruning of old entries
PublishBookkeepingUnchanged ==
    /\ last_spoke_at_ms' = last_spoke_at_ms
    /\ persona_published' = persona_published
    /\ messages_published' = messages_published
    /\ \A r \in Rooms : IsSuffix(bot_publish_times'[r], bot_publish_times[r])

\* the reply of the persona at hand to the entry at hand is the last entry of ingest
ReplyAppended ==
    /\ ingest_out # <<>>
    /\ ingest_out[Len(ingest_out)].entry = Head(pw_batch)
    /\ ingest_out[Len(ingest_out)].persona_id = Head(pw_personas)

\* C14: last_spoke_at_ms and messages_published of a persona, bot_publish_times of
\* a room and messages_published of the stats change only in the step that follows
\* a positive decision whose reply passed validation and was appended to ingest,
\* and then all four change, for that persona and that room; when validation or
\* the append fails the handler goes on to the next persona with the four unchanged
C14_BookkeepingOnlyAfterAppend ==
    [][ /\ ~PublishBookkeepingUnchanged =>
              LET persona_id == Head(pw_personas)
                  room_id == firehose_in[Head(pw_batch)].msg.room_id
              IN  /\ pw_pc = "record"
                  /\ ReplyAppended
                  /\ pw_decision.entry = Head(pw_batch)
                  /\ pw_decision.persona_id = persona_id
                  /\ pw_decision.reason \in {"e2e_forced", "p_pass"}
                  /\ last_spoke_at_ms' = [last_spoke_at_ms EXCEPT ![persona_id] = now]
                  /\ persona_published' = [persona_published EXCEPT ![persona_id] = @ + 1]
                  /\ messages_published' = messages_published + 1
                  /\ bot_publish_times'[room_id] # <<>>
                  /\ bot_publish_times'[room_id][Len(bot_publish_times'[room_id])] = now
                  /\ \A r \in Rooms \ {room_id} :
                        bot_publish_times'[r] = bot_publish_times[r]
        /\ (pw_pc = "publish" /\ pw_pc' # "publish" /\ ingest_out' = ingest_out) =>
              /\ pw_pc' # "record"
              /\ PublishBookkeepingUnchanged
        /\ (pw_pc # "record" /\ pw_pc' = "record") =>
              /\ pw_pc = "publish"
              /\ Len(ingest_out') = Len(ingest_out) + 1 ]_vars

\* a persona decided to speak, publish_chat_message returned False, and the loop
\* went on with the persona's last_spoke_at_ms and messages_published as they were
C14_Witness ==
    /\ pw_pc \in {"decide", "ack"}
    /\ pw_batch # <<>>
    /\ pw_decision.entry = Head(pw_batch)
    /\ pw_decision.reason \in {"e2e_forced", "p_pass"}
    /\ pw_decision.persona_id \notin SeqToSet(pw_personas)
    /\ \A j \in 1..Len(ingest_out) :
          ~(/\ ingest_out[j].entry = pw_decision.entry
            /\ ingest_out[j].persona_id = pw_decision.persona_id)
    /\ last_spoke_at_ms[pw_decision.persona_id] = pw_decision.last_spoke
    /\ persona_published[pw_decision.persona_id] = 0
    /\ messages_published = Len(ingest_out)

\* nothing is left to do in the closed loop: every reply has gone back to ingest,
\* and each service has read and handled every entry of its stream
LoopQuiescent ==
    /\ Len(ingest) = Len(LoopHumans) + Len(ingest_out)
    /\ g_cursor = Len(ingest)
    /\ g_batch = <<>>
    /\ Len(firehose_in) = Len(firehose)
    /\ pw_cursor = Len(firehose_in)
    /\ pw_batch = <<>>

\* C15: every decision on a firehose message of origin bot is bot_origin and no
\* reply is ever published to such a message; so in the closed loop the replies
\* number at most one per human message and persona, and the loop comes to rest
C15_BotLoopQuiesces ==
    /\ [](/\ pw_decision.origin = "bot" => pw_decision.reason = "bot_origin"
          /\ \A j \in 1..Len(ingest_out) :
                firehose_in[ingest_out[j].entry].msg.origin # "bot"
          /\ Len(ingest_out) <= Len(LoopHumans) * Len(room_cfg.enabled_personas))
    /\ <>[]LoopQuiescent

\* the loop is at rest after every persona replied to every human message and
\* the replies came back through the gateway as firehose messages of origin bot
C15_Witness ==
    /\ svc = "loop"
    /\ LoopQuiescent
    /\ Len(ingest_out) = Len(LoopHumans) * Len(room_cfg.enabled_personas)
    /\ \E i \in 1..Len(firehose_in) : firehose_in[i].msg.origin = "bot" /\ i \in pw_acked
    /\ messages_suppressed_bot_origin > 0

\* min(2^(n-1), 30): the delay of the n-th step of the backoff
BackoffAfter(n) == IF 2 ^ (n - 1) < BackoffCap THEN 2 ^ (n - 1) ELSE BackoffCap

\* the steps of the run loops around the sleep of an except branch: the handle is
\* dropped when the sleep after a connection loss ends, connect then runs again
\* and the consume loop is entered with the group created; after another
\* exception the sleep is 1 s and the loop retries with what it has
RunLoopRetries ==
    /\ (g_pc = "sleep_conn" /\ g_pc' # g_pc) => (g_pc' = "run" /\ ~g_client')
    /\ (g_pc = "run" /\ ~g_client /\ g_pc' = "read") => (g_client' /\ g_group_ok')
    /\ g_pc = "sleep_other" => g_sleep = 1
    /\ (g_pc = "sleep_other" /\ g_pc' # g_pc) =>
          (g_pc' = "run" /\ g_client' = g_client /\ g_backoff' = g_backoff)
    /\ (sp_pc = "sleep_conn" /\ sp_pc' # sp_pc) => (sp_pc' = "run" /\ ~sp_client')
    /\ (sp_pc = "run" /\ ~sp_client /\ sp_pc' = "read") => (sp_client' /\ sp_group_ok')
    /\ (sp_pc = "sleep_other" /\ sp_pc' # sp_pc) =>
          (sp_pc' = "run" /\ sp_client' = sp_client /\ sp_backoff' = sp_backoff)

\* C16 as stated: in the gateway and perceiver run loops the n-th connection loss
\* in a row is followed by a sleep of min(2^(n-1), 30) s, then the handle is
\* dropped and connect runs again; another exception sleeps 1 s and retries
C16_BackoffByLossesInARow ==
    [][ /\ g_pc = "sleep_conn" => g_sleep = BackoffAfter(g_losses.streak)
        /\ sp_pc = "sleep_conn" => sp_backoff = BackoffAfter(sp_losses.streak)
        /\ RunLoopRetries ]_vars

\* C16 amended: the same with n the number of connection losses since the run
\* loop started, whether or not reads succeeded in between
C16_BackoffByLossesSinceStart ==
    [][ /\ g_pc = "sleep_conn" => g_sleep = BackoffAfter(g_losses.total)
        /\ sp_pc = "sleep_conn" => sp_backoff = BackoffAfter(sp_losses.total)
        /\ RunLoopRetries ]_vars

\* the gateway sleeps the capped 30 s after its seventh connection loss, the
\* third in a row since a read that returned entries
C16_Witness ==
    /\ g_pc = "sleep_conn"
    /\ g_losses.total = 7
    /\ g_losses.streak = 3
    /\ g_sleep = BackoffCap
    /\ g_backoff = BackoffCap

\* C17: in the persona worker, when the sleep that follows a connection loss in
\* a firehose read ends, the bus handle has been dropped and the loop connects
\* again (with the consumer group ensured) before it reads, its backoff doubled
\* up to the cap of 30 s
C17_WorkerReconnectsAfterLoss ==
    [][ (pw_pc = "read_sleep" /\ pw_group_ok /\ pw_pc' # pw_pc) =>
          /\ ~pw_redis'
          /\ pw_pc' = "connect"
          /\ pw_backoff' = BackoffAfter(pw_faults + 1) ]_vars

----------------------------------------------------------------------------
(* C18: the subscribe handshake of handle_client *)

\* the first frame is a JSON object with type `subscribe` and a string room_id
IsSubscribeFrame(frame) ==
    frame.kind = "dict" /\ frame.type = "subscribe" /\ frame.room_is_str

\* the rooms of ConnectionManager.rooms that hold the websocket
RoomsOf(ws) == {r \in DOMAIN rooms : ws \in rooms[r]}

----------------------------------------------------------------------------
(* C19: lazy reaping of the subscribers whose send raised *)

\* the websockets whose send raised in the i-th dispatch
SendRaised(i) == dispatch_log[i].sent \ dispatch_log[i].ok

\* once the worker is past a dispatch, the websockets whose send raised are out
\* of its room, and no later dispatch has sent to them
RaisedAreGone ==
    \A i \in 1..Len(dispatch_log) :
        dispatch_log[i].done =>
            \A ws \in SendRaised(i) :
                /\ ws \notin RoomGet(rooms, dispatch_log[i].room_id)
                /\ \A j \in (i + 1)..Len(dispatch_log) : ws \notin dispatch_log[j].sent

\* no room key is left with an empty set, and the dispatch of an item whose
\* room has no key sends nothing
EmptyRoomIsNoOp ==
    /\ \A r \in DOMAIN rooms : rooms[r] # {}
    /\ \A i \in 1..Len(dispatch_log) :
          dispatch_log[i].room_id \notin DOMAIN dispatch_log[i].rooms =>
              dispatch_log[i].sent = {} /\ dispatch_log[i].done

\* the step from the end of the gather to the next get() takes out of the
\* item's room the websockets whose send raised, and nobody else anywhere
ReapTakesOnlyRaised ==
    (w_pc = "gather" /\ w_pc' = "get") =>
        \A r \in Rooms, ws \in Sockets :
            ws \in RoomGet(rooms', r) <=>
                /\ ws \in RoomGet(rooms, r)
                /\ ~(r = w_item.room_id /\ w_results[ws] = "exc")

\* C19: a websocket whose send raised is out of the room before the worker
\* takes the next item and is sent no later item; the reaping removes nobody
\* else; the room key goes with its last subscriber, and a broadcast to a room
\* without a key sends nothing.
C19_RaisedSendReaped ==
    /\ [](RaisedAreGone /\ EmptyRoomIsNoOp)
    /\ [][ReapTakesOnlyRaised]_vars

C19_Witness ==
    /\ Len(dispatch_log) = 3
    /\ \A i \in 1..3 : dispatch_log[i].room_id = "room:demo" /\ dispatch_log[i].done
    /\ dispatch_log[1].sent = {"ws1", "ws2"} /\ dispatch_log[1].ok = {"ws2"}
    /\ dispatch_log[2].rooms = [r \in {"room:demo"} |-> {"ws2"}]
    /\ dispatch_log[2].sent = {"ws2"} /\ dispatch_log[2].ok = {}
    /\ dispatch_log[3].rooms = <<>>
    /\ dispatch_log[3].sent = {}
    /\ c_pc["ws1"] = "reading" /\ c_pc["ws2"] = "reading"
    /\ rooms = <<>>

----------------------------------------------------------------------------
(* C20: the broadcast worker is first in, first out *)

\* the dispatches follow the order of acceptance, and the items still queued
\* are the next accepted ones, oldest first
DispatchInAcceptOrder ==
    /\ \A i \in 1..Len(dispatch_log) : dispatch_log[i].seq = i
    /\ \A k \in 1..Len(broadcast_queue) : broadcast_queue[k].seq = Len(dispatch_log) + k

\* only the newest dispatch can be unfinished, and a finished one has sent to
\* every subscriber its room had at the dequeue
OneDispatchAtATime ==
    \A i \in 1..Len(dispatch_log) :
        /\ i < Len(dispatch_log) => dispatch_log[i].done
        /\ dispatch_log[i].done =>
              dispatch_log[i].sent =
                  RoomGet(dispatch_log[i].rooms, dispatch_log[i].room_id)

\* what a websocket has received, dispatch after dispatch, is in enqueue order
\* and holds no item twice
ReceivedInOrder ==
    \A ws \in Sockets :
        \A i, j \in 1..Len(dispatch_log) :
            (i < j /\ ws \in dispatch_log[i].ok /\ ws \in dispatch_log[j].ok) =>
                dispatch_log[i].seq < dispatch_log[j].seq

\* C20: the worker dispatches the accepted items in the order of their
\* acceptance, one at a time and each to all the subscribers of its room, so a
\* subscriber receives the items of its room in enqueue order, none twice.
C20_FifoDispatch ==
    svc = "fifo" => DispatchInAcceptOrder /\ OneDispatchAtATime /\ ReceivedInOrder

C20_Witness ==
    /\ svc = "fifo"
    /\ Len(dispatch_log) = 2
    /\ dispatch_log[1].done /\ dispatch_log[1].ok = {"ws1", "ws2"}
    /\ ~dispatch_log[2].done /\ dispatch_log[2].ok = {"ws1"}
    /\ w_results["ws2"] = "pending"
    /\ Len(broadcast_queue) = 1
    /\ n_accepted = 3
    /\ enq_rejected = {}
    /\ \A i \in 1..2 : dispatch_log[i].room_id = "room:demo"

----------------------------------------------------------------------------
(* C21: per-message mutations come before the ack, the decision before the reply *)

\* what _handle_message changes for an entry: the dedupe cache, the windows of
\* the room and of the personas, the counters and the recorded decision
HandlerState ==
    <<dedupe_cache, seen_call, event_times, recent_messages, last_spoke_at_ms,
      persona_published, bot_publish_times, mention_events, pw_decision, pw_consumed,
      messages_deduped, messages_published, messages_suppressed_cooldown,
      messages_suppressed_budget, messages_suppressed_bot_origin>>

\* C21: a step that changes the state the handler keeps is made for the entry
\* being handled, before any ack attempt for it; and a step that appends a reply
\* to ingest finds the decision of that persona on that entry recorded, with a
\* reason that speaks, the entry not yet acked.
C21_MutationsBeforeAck ==
    [][ /\ HandlerState' # HandlerState =>
            /\ pw_batch # <<>>
            /\ pw_acks[Head(pw_batch)] = 0
            /\ Head(pw_batch) \notin pw_acked
        /\ ingest_out' # ingest_out =>
            LET reply == ingest_out'[Len(ingest_out')]
            IN  /\ pw_decision.entry = reply.entry
                /\ pw_decision.persona_id = reply.persona_id
                /\ pw_decision.reason \in {"e2e_forced", "p_pass"}
                /\ pw_acks[reply.entry] = 0
      ]_vars

C21_Witness ==
    /\ svc = "worker"
    /\ pw_acked = {1}
    /\ \E k \in 1..Len(ingest_out) : ingest_out[k].entry = 1
    /\ pw_pc = "record"
    /\ Head(pw_batch) = 2
    /\ pw_acks[2] = 0
    /\ pw_decision.entry = 2
    /\ ingest_out[Len(ingest_out)].entry = 2
    /\ messages_published = 1

----------------------------------------------------------------------------
(* C22: shutdown and the retry sleeps *)

\* C22: once shutdown has been requested, a loop that is in a retry sleep does
\* not run that sleep to its end, and a loop still in its initial connect-retry
\* makes no further attempt: the request interrupts them.
C22_ShutdownInterruptsRetries ==
    [][ /\ g_stop => ~(g_pc \in {"sleep_conn", "sleep_other"} /\ g_pc' = "run")
        /\ pw_stop =>
            /\ ~(pw_pc = "connect_sleep" /\ pw_pc' \in {"connect", "read"})
            /\ ~(pw_pc = "connect" /\ pw_pc' = "connect_sleep")
            /\ ~(pw_pc = "read_sleep" /\ pw_pc' = "read")
      ]_vars

----------------------------------------------------------------------------
(* C23: the identifiers the memory client requires *)

\* the text of a value that is neither missing nor None
TextOf(v) == IF v.t = "str" THEN v.s ELSE IF v.t = "int" THEN IntStr(v.n) ELSE <<>>

\* the value holds a character that is not white space
NonBlank(v) == \E i \in 1..Len(TextOf(v)) : TextOf(v)[i] # "s"

\* `v` is the str of `raw` without the white space around it
TrimOf(v, raw) ==
    /\ v.t = "str"
    /\ v.s # <<>> /\ Head(v.s) # "s" /\ v.s[Len(v.s)] # "s"
    /\ \E i, j \in 1..Len(TextOf(raw)) : SubSeq(TextOf(raw), i, j) = v.s
    /\ SelectSeq(v.s, LAMBDA c : c # "s") = SelectSeq(TextOf(raw), LAMBDA c : c # "s")

\* the identifiers of the dict `filters` of the call
FilterIds == IF lib_in.payload.filters.kind = "dict" THEN lib_in.payload.filters.ids
             ELSE NoIdentifiers

\* the call names an identifier: at the top level, in `filters`, or as the
\* app_id of the client
NamesAnIdentifier ==
    \/ \E key \in IdentifierKeys :
          NonBlank(lib_in.payload.ids[key]) \/ NonBlank(FilterIds[key])
    \/ NonBlank(lib_in.app_id)

\* C23: add_memory and search_memories raise mem0_identifiers_required, without
\* any HTTP request, exactly when no identifier that is not blank is named at
\* the top level, in `filters` or by the client's app_id; otherwise add sends
\* a payload without `filters` that holds, trimmed, the identifiers found only
\* in `filters`, and search sends a payload whose top-level identifiers have
\* been moved, trimmed, into `filters`.
C23_IdentifiersRequired ==
    (svc = "mem0" /\ lib_pc = "done") =>
        LET result == lib_out.result
            sent == result.payload
        IN  /\ result.raised <=> ~NamesAnIdentifier
            /\ result.raised =>
                  result.error = "mem0_identifiers_required" /\ lib_out.requests = 0
            /\ (~result.raised /\ lib_in.op = "add_memory") =>
                  /\ sent.filters.kind = "absent"
                  /\ \A key \in IdentifierKeys :
                        (~NonBlank(lib_in.payload.ids[key]) /\ NonBlank(FilterIds[key])) =>
                            TrimOf(sent.ids[key], FilterIds[key])
            /\ (~result.raised /\ lib_in.op = "search_memories") =>
                  /\ sent.filters.kind = "dict"
                  /\ \A key \in IdentifierKeys :
                        /\ sent.ids[key] = Absent
                        /\ NonBlank(lib_in.payload.ids[key]) =>
                              TrimOf(sent.filters.ids[key], lib_in.payload.ids[key])

C23_Witness ==
    /\ svc = "mem0"
    /\ lib_pc = "done"
    /\ lib_in.op = "add_memory"
    /\ lib_in.app_id = PyStr(<<"s">>)
    /\ lib_in.payload.ids["user_id"] = PyStr(<<"s">>)
    /\ lib_in.payload.ids["app_id"] = PyNone
    /\ lib_in.payload.filters.kind = "dict"
    /\ lib_in.payload.filters.ids["user_id"] = PyNone
    /\ lib_out.result.raised
    /\ lib_out.requests = 0

----------------------------------------------------------------------------
(* C24: a memory value that redaction leaves empty is not stored *)

\* the value is empty or made of [REDACTED] and white space only
OnlyRedacted(value) == \A i \in 1..Len(value) : value[i] \in {"R", "s"}

\* C24: on the heuristic and on the LLM path, a candidate whose redacted value
\* is empty or only [REDACTED] and white space is never handed to upsert; the
\* call that met one leaves memory_writes_rejected higher than it found it; and
\* the call returns without raising.
C24_RedactedOnlyRejected ==
    (svc = "memory" /\ lib_pc = "done") =>
        /\ ~lib_out.raised
        /\ \A i \in 1..Len(lib_out.writes) :
              OnlyRedacted(lib_out.writes[i].value) =>
                  /\ lib_out.writes[i].outcome = "rejected"
                  /\ lib_out.rejected > 0

C24_Witness ==
    /\ svc = "memory"
    /\ lib_pc = "done"
    /\ lib_in.strategy = "llm"
    /\ lib_in.enabled
    /\ lib_in.candidates = << <<"s", "e">>, <<"w">> >>
    /\ lib_in.raw_value = <<"e", "s">>
    /\ Len(lib_out.writes) = 3
    /\ lib_out.writes[1] = Write("llm", <<"R">>, "rejected")
    /\ lib_out.writes[2].outcome = "failed"
    /\ lib_out.writes[3] = Write("heuristic", <<"R">>, "rejected")
    /\ lib_out.rejected = 2

----------------------------------------------------------------------------
(* C25: the deterministic generator is a function of its inputs *)

\* C25: two calls of generate_reply with the same event, persona, persona
\* config, room config, content and tags return the same reply, whatever the
\* runtime state and the clock at each call; and no reply is empty.
C25_ReplyIsPureAndNonEmpty ==
    svc = "generator" =>
        /\ \A i \in 1..Len(lib_out) : lib_out[i].reply # <<>>
        /\ \A i, j \in 1..Len(lib_out) : lib_out[i].reply = lib_out[j].reply

C25_Witness ==
    /\ svc = "generator"
    /\ lib_pc = "done"
    /\ lib_out[1].state # lib_out[2].state
    /\ lib_out[1].state.seen # lib_out[2].state.seen
    /\ lib_in.tags.reason = "p_pass"
    /\ lib_in.persona_cfg.catchphrases = << <<"@">> >>
    /\ lib_out[1].reply = <<"ok">>
    /\ lib_out[2].reply = <<"ok">>

----------------------------------------------------------------------------
(* C26: persona selection of the auto-commentary *)

PickerIds == {pid \in SeqToSet(lib_in.enabled_personas) : pid # ""}

\* the recent-persona short list, of size avoid_repeat_last_n
PickerRecent ==
    {lib_in.recent_list[i] :
        i \in {k \in 1..Len(lib_in.recent_list) :
                  k > Len(lib_in.recent_list) - lib_in.cfg.avoid_repeat_last_n}}

PickerCandidates ==
    IF PickerIds \ PickerRecent # {} THEN PickerIds \ PickerRecent ELSE PickerIds

\* the id as a whole word or "@id" in the summary, or among the entities
IsMentioned(persona_id) ==
    \/ persona_id \in SeqToSet(lib_in.observation.entities)
    \/ \E i \in 1..Len(lib_in.observation.summary) :
          /\ lib_in.observation.summary[i].id = persona_id
          /\ lib_in.observation.summary[i].kind \in {"word", "at"}

Boosted(persona_id) == lib_in.cfg.mention_targeting_enabled /\ IsMentioned(persona_id)

PickerScore(persona_id) ==
    _selection_score(seed_base(lib_in.observation), lib_in.observation.room_id, persona_id)
        + (IF Boosted(persona_id) THEN lib_in.cfg.boost ELSE 0)

WinnerIsBest ==
    /\ lib_out.persona_id \in PickerCandidates
    /\ \A c \in PickerCandidates :
          \/ PickerScore(c) < PickerScore(lib_out.persona_id)
          \/ /\ PickerScore(c) = PickerScore(lib_out.persona_id)
             /\ IdRank(lib_out.persona_id) <= IdRank(c)

FallbackReason ==
    IF lib_in.cfg.avoid_repeat_last_n = 0 THEN "deterministic"
    ELSE IF PickerIds \ PickerRecent # {} THEN "diversity_filtered"
    ELSE "diversity_fallback"

PickerDone == svc = "picker" /\ lib_pc = "done" /\ PickerIds # {}

\* C26 as stated: the winner is the best candidate, and the reason is
\* mention_targeted iff the winner is mentioned.
C26_MentionTargetedIffMentioned ==
    PickerDone =>
        /\ WinnerIsBest
        /\ (lib_out.reason = "mention_targeted") <=> IsMentioned(lib_out.persona_id)

\* C26 amended: the candidates are the sorted enabled ids minus the recent
\* short list, or all of them when that leaves none; the winner has the
\* maximal score and, among equal scores, the smallest id; the reason is
\* mention_targeted iff mention targeting is enabled and the winner is
\* mentioned, and the diversity reason otherwise.
C26_PickPersona ==
    PickerDone =>
        /\ WinnerIsBest
        /\ (lib_out.reason = "mention_targeted") <=> Boosted(lib_out.persona_id)
        /\ lib_out.reason # "mention_targeted" => lib_out.reason = FallbackReason

C26_Witness ==
    /\ PickerDone
    /\ PickerIds \ PickerRecent = {}
    /\ lib_in.cfg.avoid_repeat_last_n > 0
    /\ lib_out.reason = "diversity_fallback"
    /\ \E c \in PickerCandidates :
          c # lib_out.persona_id /\ PickerScore(c) = PickerScore(lib_out.persona_id)
    /\ \E c \in PickerCandidates : IsMentioned(c)

----------------------------------------------------------------------------
(* C27: the gates of should_emit *)

\* the reasons should_emit may give for a logged call: that of the first gate
\* that fails in the state the call found, or ok
GateReasons(e) ==
    LET obs == e.observation
        cfg == lib_in
    IN  IF ~_is_interesting(obs, cfg, compute_interest_score(obs, cfg))
        THEN {"not_interesting"}
        ELSE IF auto_room_momentum_ready(e.before, obs.room_id, e.now_ms,
                    cfg.momentum_window_ms, cfg.momentum_max_msgs,
                    cfg.momentum_min_interval_ms) # "ok"
        THEN {"momentum_rate", "momentum_interval"}
        ELSE IF ~auto_room_ready(e.before, obs.room_id, e.now_ms, cfg.room_rate_limit_ms)
        THEN {"room_rate"}
        ELSE IF /\ cfg.max_messages_per_observation > 0
                /\ obs.id # 0
                /\ auto_observation_count(e.before, obs.id, e.now_ms, cfg.dedupe_window_ms)
                       >= cfg.max_messages_per_observation
        THEN {"max_per_observation"}
        ELSE {"summary_dedupe", "ok"}

NormalOf(e) == _normalize_summary(e.observation.summary, lib_in.summary_dedupe.normalize)

SummaryKnown(e) ==
    \E i \in 1..Len(e.before.auto_summaries) :
        /\ e.before.auto_summaries[i].hash = Sha256(NormalOf(e))
        /\ e.now_ms - e.before.auto_summaries[i].ts <= lib_in.summary_dedupe.ttl_ms

\* two logged calls with the same normalized summary less than ttl_ms apart,
\* the summary dedupe enabled, both past the four earlier gates, the first
\* one new
SameSummaryPair(i, j) ==
    /\ i < j
    /\ lib_in.summary_dedupe.enabled
    /\ NormalOf(lib_out.log[i]) = NormalOf(lib_out.log[j])
    /\ lib_out.log[j].now_ms - lib_out.log[i].now_ms < lib_in.summary_dedupe.ttl_ms
    /\ GateReasons(lib_out.log[i]) = {"summary_dedupe", "ok"}
    /\ GateReasons(lib_out.log[j]) = {"summary_dedupe", "ok"}
    /\ ~SummaryKnown(lib_out.log[i])

GatesInOrder ==
    \A i \in 1..Len(lib_out.log) :
        /\ lib_out.log[i].reason \in GateReasons(lib_out.log[i])
        /\ lib_out.log[i].ok <=> lib_out.log[i].reason = "ok"

\* C27 as stated: the reason is that of the first failing gate, and of two
\* observations with the same normalized summary within ttl_ms the first is
\* emitted and the second yields summary_dedupe.
C27_SameSummaryDeduped ==
    svc = "emitter" =>
        /\ GatesInOrder
        /\ \A i, j \in 1..Len(lib_out.log) :
              SameSummaryPair(i, j) =>
                  lib_out.log[i].ok /\ lib_out.log[j].reason = "summary_dedupe"

\* C27 amended: the reason is that of the first gate that fails, in the order
\* interesting filter, momentum, room rate, max per observation, summary
\* dedupe; and of two observations with the same non-empty normalized summary
\* within ttl_ms the first is emitted and the second yields summary_dedupe.
C27_GateOrderAndDedupe ==
    svc = "emitter" =>
        /\ GatesInOrder
        /\ \A i, j \in 1..Len(lib_out.log) :
              SameSummaryPair(i, j) /\ NormalOf(lib_out.log[i]) # <<>> =>
                  lib_out.log[i].ok /\ lib_out.log[j].reason = "summary_dedupe"

C27_Witness ==
    /\ svc = "emitter"
    /\ Len(lib_out.log) = 2
    /\ SameSummaryPair(1, 2)
    /\ lib_out.log[1].observation.summary # lib_out.log[2].observation.summary
    /\ lib_out.log[1].observation.id # lib_out.log[2].observation.id
    /\ lib_out.log[1].ok
    /\ lib_out.log[2].reason = "summary_dedupe"
    /\ lib_out.log[2].now_ms > lib_out.log[1].now_ms

----------------------------------------------------------------------------
(* C28: the prompt digest verified at initialisation *)

\* the two files differ at most in CR/LF against LF line endings and in the
\* number of trailing newlines
SamePromptText == canonical_prompt_text(lib_in.first) = canonical_prompt_text(lib_in.second)

\* C28: two prompt files that differ only in line endings or trailing newlines
\* both pass or both fail the verification of PromptRenderer's initialisation.
C28_CanonicalDigestVerified ==
    svc = "prompts" /\ lib_pc = "done" /\ SamePromptText =>
        lib_out[1].error = lib_out[2].error

----------------------------------------------------------------------------
(* C29: action and reasons of the gateway moderation *)

\* the patterns of the config that match the content, in pattern order
MatchingPatterns ==
    SelectSeq(lib_in.patterns, LAMBDA pattern : pattern.regex \in SeqToSet(lib_in.content))

\* the kinds of a sequence of patterns, in order, each kind once
RECURSIVE DistinctKinds(_, _)
DistinctKinds(patterns, kinds) ==
    IF patterns = <<>> THEN kinds
    ELSE DistinctKinds(Tail(patterns),
                       IF Head(patterns).kind \in SeqToSet(kinds) THEN kinds
                       ELSE Append(kinds, Head(patterns).kind))

\* C29: the action is allow with empty reasons when no pattern matches and
\* redact otherwise; then no occurrence of a matching pattern is left, and the
\* reasons are the kinds of the matching patterns in pattern order, each kind
\* once, also when several patterns share a kind.
C29_ReasonsAreDistinctKinds ==
    svc = "moderation" /\ lib_pc = "done" =>
        IF MatchingPatterns = <<>>
        THEN lib_out.action = "allow" /\ lib_out.reasons = <<>>
        ELSE /\ lib_out.action = "redact"
             /\ \A i \in 1..Len(MatchingPatterns) :
                   MatchingPatterns[i].regex \notin SeqToSet(lib_out.content)
             /\ lib_out.reasons = DistinctKinds(MatchingPatterns, <<>>)

----------------------------------------------------------------------------
(* C30: the probabilistic gate *)

\* p_base, raised by the mention bonus when mentioned
AfterMention ==
    IF lib_in.mention_detected
    THEN Min(p_one, lib_in.policy.p_base + lib_in.policy.p_mention_bonus)
    ELSE lib_in.policy.p_base

\* then raised by the hype bonus on hype
AfterHype ==
    IF lib_in.hype_detected THEN Min(p_one, AfterMention + lib_in.policy.p_hype_bonus)
    ELSE AfterMention

\* then lowered by the rate penalty, not below the floor
ClaimedThreshold ==
    IF lib_in.rate_10s > 0
    THEN Max(p_floor, AfterHype - lib_in.policy.p_rate_penalty_per_msg * lib_in.rate_10s)
    ELSE AfterHype

\* C30: past the hard gates and without a marker the persona emits iff h < p,
\* with h the score of (message_id, persona_id) and p the base raised by the
\* mention and hype bonuses (each step capped at 1.0) and, when rate_10s > 0,
\* lowered by the rate penalty with floor 0.02; otherwise the reason is p_gate.
C30_EmitIffBelowThreshold ==
    svc = "policy" /\ lib_pc = "done" /\ lib_in.message_id # 0 =>
        /\ lib_out.speak
              <=> deterministic_hash_score(lib_in.message_id, lib_in.persona_id)
                      < ClaimedThreshold
        /\ lib_out.speak => lib_out.reason = "p_pass"
        /\ ~lib_out.speak => lib_out.reason = "p_gate"

C30_Witness ==
    /\ svc = "policy"
    /\ lib_pc = "done"
    /\ lib_in.message_id # 0
    /\ lib_in.mention_detected
    /\ lib_in.hype_detected
    /\ lib_in.rate_10s > 0
    /\ lib_in.policy.p_base + lib_in.policy.p_mention_bonus > p_one
    /\ ClaimedThreshold < p_one
    /\ ClaimedThreshold > p_floor
    /\ lib_out.speak
    /\ lib_out.reason = "p_pass"

----------------------------------------------------------------------------
(* C31: the order of eviction of the dedupe cache *)

\* the ids of the cache before the last call, least recently used first
CachedByUse == SelectSeq(seen_call.uses, LAMBDA id : id \in SeqToSet(seen_call.before))

\* C31: when seen_before inserts a new id into a full cache, the id that goes
\* is the least recently used one, a lookup that hits counting as a use.
C31_EvictsLeastRecentlyUsed ==
    (svc = "dedupe" /\ seen_call.n > 0 /\ ~seen_call.ret
        /\ Len(seen_call.before) = dedupe_size /\ dedupe_size > 0) =>
        /\ Head(CachedByUse) \notin SeqToSet(seen_call.after)
        /\ SeqToSet(Tail(CachedByUse)) \subseteq SeqToSet(seen_call.after)

----------------------------------------------------------------------------
(* C32: the sliding count of room events *)

\* the recorded events whose timestamp lies within the last 10 000 ms of now
EventsInWindow ==
    {i \in 1..Len(lib_out.recorded) :
        /\ lib_out.recorded[i] <= lib_out.now_ms
        /\ lib_out.now_ms - lib_out.recorded[i] <= event_window_ms}

\* C32: rate_10s(now) returns the number of recorded room events whose
\* timestamp lies within the last 10 000 ms of now, whatever the order of the
\* timestamps passed to record_event.
C32_RateCountsEventsInWindow ==
    svc = "room_rate" /\ lib_out.last = "rate_10s" =>
        lib_out.rate = Cardinality(EventsInWindow)


\* ---- C33: observations carry their frame's fields ----

\* the frame payload of the entry an observation was made for
SourceFrame(observation) == frames_in[observation.frame].frame

\* ids of the buffered segments of the frame's room within the join window of
\* the frame, in buffer order, which is (ts_ms, id)
SegmentsInWindow(frame) ==
    LET near == SelectSeq(transcripts[frame.room_id], LAMBDA seg :
                     /\ seg.ts_ms >= frame.ts_ms - transcript_join_window_ms
                     /\ seg.ts_ms <= frame.ts_ms + transcript_join_window_ms)
    IN  [k \in 1..Len(near) |-> near[k].id]

\* C33: every observation appended to the observations stream has room_id,
\* frame_id and frame_sha256 equal to those of its source frame, and the
\* observation about to be appended lists the ids of exactly the buffered
\* segments inside the join window of its frame, ordered by (ts_ms, id)
C33_ObservationCarriesFrameFields ==
    /\ \A i \in 1..Len(observations) :
          /\ observations[i].room_id = SourceFrame(observations[i]).room_id
          /\ observations[i].frame_id = SourceFrame(observations[i]).id
          /\ observations[i].frame_sha256 = SourceFrame(observations[i]).sha256
    /\ sp_pc = "xadd" =>
          sp_obs.transcript_ids = SegmentsInWindow(SourceFrame(sp_obs))


\* ---- C34: the per-observation counter forgets messages older than the window ----

\* the call just made was auto_observation_count for an observation whose current
\* window started more than window_ms ago
CountAfterWindow ==
    /\ svc = "auto_counts"
    /\ lib_out.last.op = "count"
    /\ lib_out.starts[lib_out.last.obs_id] # None
    /\ lib_out.now_ms - lib_out.starts[lib_out.last.obs_id] > lib_in.window_ms

\* C34: with non-decreasing now_ms, auto_observation_count(obs_id, now, window)
\* returns 0 once the first recorded message for obs_id is more than window ms
\* old, whatever other observations were recorded or incremented in between
C34_CountIsZeroAfterWindow ==
    CountAfterWindow => lib_out.last.result = 0


\* ---- C35: the content of what the gateway hands on ----

\* the messages enqueued for broadcast and the messages appended to firehose
HandedOn ==
    {broadcast_queue[i].message : i \in 1..Len(broadcast_queue)}
        \cup {firehose[i].msg : i \in 1..Len(firehose)}

\* content as sanitize_content leaves it: no CR or LF, at most content_max_length
SingleLineBounded(content) ==
    /\ \A i \in 1..Len(content) : content[i] # "n"
    /\ Len(content) <= content_max_length

C36_CountersPartitionConsumed ==
    (svc = "gateway" /\ g_pc \notin {"xadd", "ack"}) =>
        messages_consumed = messages_broadcast + messages_dropped


\* ---- C37: the subscriber sets once handle_client has returned ----

\* C37: a websocket whose handle_client has returned (the first frame, the
\* acknowledgement send or the read loop ended it, before or after the broadcast
\* worker reaped the same socket) is a member of no room's subscriber set; a
\* websocket is a member of at most one room; no room key maps to an empty set
C37_SubscriberSetsAfterReturn ==
    /\ \A ws \in Sockets : c_pc[ws] = "closed" => RoomsOf(ws) = {}
    /\ \A ws \in Sockets : Cardinality(RoomsOf(ws)) <= 1
    /\ \A r \in DOMAIN rooms : rooms[r] # {}

\* a websocket the worker has reaped after a failed send has had its
\* handle_client return as well, while the other websocket is still subscribed
C37_Witness ==
    /\ svc = "fanout"
    /\ \E ws \in Sockets :
          /\ c_pc[ws] = "closed"
          /\ \E i \in 1..Len(dispatch_log) :
                /\ dispatch_log[i].done
                /\ ws \in dispatch_log[i].sent \ dispatch_log[i].ok
          /\ \E other \in Sockets \ {ws} : RoomsOf(other) # {}


\* ---- C38: the consume loop and the consumer group ----

\* C38: in the gateway and in the perceiver the consume loop is only entered
\* with a handle whose consumer-group creation succeeded or answered BUSYGROUP:
\* after a connect that failed in group creation, with a connection error or
\* with another response error, the run loop connects again before it reads
C38_ReadOnlyWithGroup ==
    /\ (svc = "gateway_outage" /\ g_pc = "read") => g_group_ok
    /\ (svc = "perceiver_outage" /\ sp_pc = "read") => sp_group_ok


\* ---- C39: the backoff after a recovery ----

\* the connection loss just met is the first one since a read that returned
\* entries, and not the first one since the run loop started
LossAfterRecovery(losses) == losses.streak = 1 /\ losses.total > 1

\* C39 as claimed: in the gateway and perceiver run loops the backoff is reset
\* by recovery: after a reconnect and a successful read the next connection
\* loss is followed by a sleep of 1 s
C39_BackoffResetByRecovery ==
    /\ (svc = "gateway_outage" /\ g_pc = "sleep_conn" /\ LossAfterRecovery(g_losses)) =>
          g_sleep = 1
    /\ (svc = "perceiver_outage" /\ sp_pc = "sleep_conn" /\ LossAfterRecovery(sp_losses)) =>
          sp_backoff = 1

\* C39: in the gateway and perceiver run loops the backoff is not reset by
\* recovery: after a reconnect and a successful read the next connection loss
\* is followed by the delay the earlier losses have led to, twice the sleep of
\* the loss before it, capped at 30 s
C39_BackoffKeptAcrossRecovery ==
    /\ (svc = "gateway_outage" /\ g_pc = "sleep_conn" /\ LossAfterRecovery(g_losses)) =>
          g_sleep > 1 /\ g_sleep = BackoffAfter(g_losses.total)
    /\ (svc = "perceiver_outage" /\ sp_pc = "sleep_conn" /\ LossAfterRecovery(sp_losses)) =>
          sp_backoff > 1 /\ sp_backoff = BackoffAfter(sp_losses.total)

\* the gateway lost the connection twice, recovered and read entries, and sleeps
\* 4 s after the loss that follows
C39_Witness ==
    /\ svc = "gateway_outage"
    /\ g_pc = "sleep_conn"
    /\ g_losses = [total |-> 3, streak |-> 1]
    /\ g_sleep = 4
    /\ g_cursor > 0


\* ---- C40: one observation per frame entry, made when the frame is handled ----

\* ids of the segments of a buffer inside the join window of a frame, in the
\* order of the buffer
WindowIds(buf, frame) ==
    LET near == SelectSeq(buf, LAMBDA seg :
                     /\ seg.ts_ms >= frame.ts_ms - transcript_join_window_ms
                     /\ seg.ts_ms <= frame.ts_ms + transcript_join_window_ms)
    IN  [k \in 1..Len(near) |-> near[k].id]

\* the observations made for the frames entry with stream index k
ObservationsOf(k) == {i \in 1..Len(observations) : observations[i].frame = k}

\* C40: in the perceiver an observation is put together in the step that handles
\* its frame, from the segments buffered at that moment and inside the join
\* window; the append adds that observation and nothing else, for a frame entry
\* that has none yet, and leaves the earlier observations as they are, so a
\* segment read later is never added; no entry is handled twice; and after an
\* append that failed the handler issues the xack with no observation made
C40_OneObservationPerFrame ==
    [][ svc = "perceiver_late" =>
          /\ (sp_pc = "handle" /\ sp_pc' = "xadd") =>
                /\ sp_obs'.frame = Head(sp_batch)[2]
                /\ sp_obs'.transcript_ids =
                     WindowIds(transcripts'[SpEntry(Head(sp_batch)).frame.room_id],
                               SpEntry(Head(sp_batch)).frame)
          /\ Len(observations') >= Len(observations)
          /\ SubSeq(observations', 1, Len(observations)) = observations
          /\ Len(observations') > Len(observations) =>
                /\ sp_pc = "xadd"
                /\ observations' = Append(observations, sp_obs)
                /\ ObservationsOf(sp_obs.frame) = {}
          /\ \A key \in DOMAIN sp_handled : sp_handled'[key] <= 1
          /\ (sp_pc = "xadd" /\ sp_pc' # sp_pc /\ observations' = observations) =>
                /\ sp_pc' = "ack"
                /\ Head(sp_batch') = Head(sp_batch)
                /\ ObservationsOf(Head(sp_batch)[2]) = {}
          /\ (sp_pc = "ack" /\ sp_pc' # sp_pc) =>
                sp_acks'[Head(sp_batch)] = sp_acks[Head(sp_batch)] + 1 ]_vars

\* an emitted observation leaves out a segment that is buffered now and lies
\* inside the join window of its frame: the segment was read after the frame;
\* and the append of another frame's observation failed (the one broker failure,
\* with no connection loss and no failed xack), that frame is acked and has none
C40_Witness ==
    /\ svc = "perceiver_late"
    /\ \E i \in 1..Len(observations) :
          LET frame == SourceFrame(observations[i])
              buf == transcripts[frame.room_id]
          IN  \E j \in 1..Len(buf) :
                /\ buf[j].ts_ms >= frame.ts_ms - transcript_join_window_ms
                /\ buf[j].ts_ms <= frame.ts_ms + transcript_join_window_ms
                /\ buf[j].id \notin SeqToSet(observations[i].transcript_ids)
    /\ \E k \in 1..Len(frames_in) :
          /\ <<FramesKey, k>> \in sp_acked
          /\ sp_handled[<<FramesKey, k>>] = 1
          /\ ObservationsOf(k) = {}
    /\ llm_calls = 2
    /\ emitted_observations = 1
    /\ llm_failures = 0
    /\ schema_failures = 1
    /\ sp_faults = 1
    /\ redis_failures = 0
    /\ \A key \in DOMAIN sp_acks : sp_acks[key] = 1 => key \in sp_acked

====
